---- MODULE Spec2Model ----
(***************************************************************************)
(* Model of the microphone signal detector of Audio-Translator-Web         *)
(* (src/mic-signal-detector.js).  The file holds two classes named         *)
(* MicSignalDetector: the analyser-injected one (lines 5-166) and the      *)
(* self-initialising one (lines 177-395).  `variant` says which of the two *)
(* an instance is.                                                         *)
(*                                                                         *)
(* Time is in milliseconds.  A tick (_monitor) is synchronous; all the     *)
(* Date.now() reads of one tick return the same value, `clock`.            *)
(***************************************************************************)
EXTENDS Integers, Sequences, FiniteSets, TLC

VARIABLES
  variant,                \* "injected" (lines 5-166) or "self" (lines 177-395)
  analyser,               \* TRUE when this.analyser is an AnalyserNode
  audioStream,            \* TRUE when this.audioStream is a MediaStream
  audioContext,           \* TRUE when this.audioContext is an AudioContext
  audioLevel,             \* this.audioLevel
  lastHasSignal,          \* this.lastHasSignal
  signalOffTimestamp,     \* this.signalOffTimestamp: << >> is null, <<t>> is t
  signalOnTimestamp,      \* this.signalOnTimestamp:  << >> is null, <<t>> is t
  SIGNAL_THRESHOLD,       \* this.SIGNAL_THRESHOLD
  SIGNAL_OFF_DEBOUNCE_MS, \* this.SIGNAL_OFF_DEBOUNCE_MS
  SIGNAL_ON_CONFIRM_MS,   \* this.SIGNAL_ON_CONFIRM_MS
  isMonitoring,           \* this.isMonitoring
  animationId,            \* this.animationId: << >> is null, <<id>> a frame id
  frames,                 \* ids of the frame callbacks requested and still pending
  clock,                  \* Date.now()
  dataArray,              \* the snapshot read by the last tick
  midFreqRatio,           \* the local midFreqRatio of the last tick, as the
                          \* fraction <<numerator, denominator>>
  hasSignal,              \* the local hasSignal (raw verdict) of the last tick
  \* ---- observation of the last step and of the run of ticks (history) ----
  tickOf,                 \* "startMonitoring" or "frame" when the last step ran
                          \* _monitor past its guard from there, else "none"
  pre,                    \* the signal state the last tick started from
  emitted,                \* events passed to onSignalStateChanged by the last step
  levelNotified,          \* levels passed to onAudioLevelChanged by the last step
  runStart,               \* time of the first tick of the current run of ticks
                          \* that all have the raw verdict of the last tick
  offRun,                 \* the current run of raw-false ticks that began in the
                          \* stable-on state: << >> or <<[t0, due, emits]>>
  stoppedBefore,          \* TRUE once stopMonitoring() has been called
  nested,                 \* how many ticks the last step began while another
                          \* tick of the detector was still executing
  cleanup,                \* the calls of cancelAnimationFrame, track.stop and
                          \* audioContext.close made by the last step, in order
  succession,             \* the calls of stop() and stopMonitoring() made since
                          \* the last step that was neither (the last two)
  lastEvent,              \* << >>, or <<h>> for the hasSignal of the last event
                          \* passed to onSignalStateChanged
  options,                \* the options object the constructor was given, as
                          \* <<signalThreshold, debounceMs, confirmMs>>; only
                          \* SpecOptions keeps it, the others leave it << >>
  translation,            \* the last call of TranslationService.translateText:
                          \* << >> before the first call
  recognition,            \* the SpeechRecognition object of the transcriber:
                          \* its session, who started it and who halted it
  transcriber,            \* the fields of the transcriber, the transcript its
                          \* handlers share, and whether the 500 ms timer of
                          \* requestPermissionOnce() is pending
  promises,               \* the promises fromMicrophone() has returned, in
                          \* order: "pending", "resolved" or "rejected"
  page,                   \* the variables of the page script
  service,                \* the fields of the TranslationService that listens,
                          \* and how many calls and recognition.start() calls
                          \* it has seen
  recorder,               \* the fields of the AudioRecorder, the frame callbacks
                          \* it has pending, Date.now(), and what its last step
                          \* passed to its observers
  electron,               \* hotkeyDebounce of the Electron main process,
                          \* Date.now(), and the callbacks debounceHotkey called
  transcriptionList       \* the element #transcriptionList of the page: its
                          \* message, its children, and Date.now()

detectorVars == << variant, analyser, audioStream, audioContext, audioLevel,
           lastHasSignal, signalOffTimestamp, signalOnTimestamp,
           SIGNAL_THRESHOLD, SIGNAL_OFF_DEBOUNCE_MS, SIGNAL_ON_CONFIRM_MS,
           isMonitoring, animationId, frames, clock, dataArray, midFreqRatio,
           hasSignal, tickOf, pre, emitted, levelNotified, runStart, offRun,
           stoppedBefore, nested, cleanup, succession, lastEvent >>

\* What is not a field of the detector nor of its history
\* What belongs to the parts around the page
shellVars == << service, recorder, electron, transcriptionList >>

pageVars == << options, translation, recognition, transcriber, promises, page,
               shellVars >>

vars == << detectorVars, pageVars >>

null == << >>

----------------------------------------------------------------------------
(* Bounds of the model *)

MaxTime == 6        \* the clock runs from 0 to MaxTime
MaxGap == 2         \* at most MaxGap ms pass between two steps that read the clock
MaxFrames == 2      \* at most MaxFrames frame requests are pending at a time

(* Program constants *)

fftSize == 256                    \* analyser.fftSize
DefaultThresholdInjected == 25    \* options.signalThreshold || 25
DefaultDebounceInjected == 1000   \* options.debounceMs || 1000
DefaultConfirmInjected == 300     \* options.confirmMs || 300
DefaultThresholdSelf == 15        \* options.signalThreshold || 15
DefaultDebounceSelf == 2000       \* options.debounceMs || 2000
DefaultConfirmSelf == 0           \* options.confirmMs || 0
MaxMagnitude == 255               \* a Uint8Array element; rms / 255

----------------------------------------------------------------------------
(* The classifier: lines 286-317 (and 52-87) of _monitor *)

\* Math.floor(bufferLength * 0.1): the double 0.1 lies above 1/10, so the
\* product never falls below an integer that N/10 reaches
MidFreqStart(bufferLength) == bufferLength \div 10
\* MidFreqEnd with Math.ceil written for Math.floor
MidFreqEndCeil(bufferLength) == (4 * bufferLength + 9) \div 10

\* Math.floor(bufferLength * 0.4)
MidFreqEnd(bufferLength) == (4 * bufferLength) \div 10

\* The three loops for (let i = 0; i < bufferLength; i++) of _monitor, each over
\* the bins with 0-based index in [from, to) of the 1-based sequence d.  A loop
\* over a range is the loop over its lower half followed by the loop over its
\* upper half, which keeps the evaluation shallow for 128 bins.

\* sum += dataArray[i] * dataArray[i]
RECURSIVE SumSquaresOver(_, _, _)
SumSquaresOver(d, from, to) ==
  IF to <= from THEN 0
  ELSE IF to = from + 1 THEN d[from + 1] * d[from + 1]
  ELSE SumSquaresOver(d, from, (from + to) \div 2)
       + SumSquaresOver(d, (from + to) \div 2, to)

\* totalSum += dataArray[i]
RECURSIVE TotalSumOver(_, _, _)
TotalSumOver(d, from, to) ==
  IF to <= from THEN 0
  ELSE IF to = from + 1 THEN d[from + 1]
  ELSE TotalSumOver(d, from, (from + to) \div 2)
       + TotalSumOver(d, (from + to) \div 2, to)

\* if (i >= midFreqStart && i < midFreqEnd) midFreqSum += dataArray[i]
RECURSIVE MidFreqSumOver(_, _, _)
MidFreqSumOver(d, from, to) ==
  IF to <= from THEN 0
  ELSE IF to = from + 1
    THEN (IF from >= MidFreqStart(Len(d)) /\ from < MidFreqEnd(Len(d))
          THEN d[from + 1] ELSE 0)
  ELSE MidFreqSumOver(d, from, (from + to) \div 2)
       + MidFreqSumOver(d, (from + to) \div 2, to)

SumSquares(d) == SumSquaresOver(d, 0, Len(d))
TotalSum(d) == TotalSumOver(d, 0, Len(d))
MidFreqSum(d) == MidFreqSumOver(d, 0, Len(d))

RECURSIVE GCD(_, _)
GCD(a, b) == IF b = 0 THEN a ELSE GCD(b, a % b)

\* Math.round((Math.sqrt(sum / bufferLength) / 255) * 100).  Math.round rounds
\* halves up, so the result is the largest L with L - 1/2 <= 100*rms/255, that
\* is (2L-1)^2 * 255^2 * N <= 200^2 * sum; both sides are divided by
\* 25 * gcd(N, 1600) to stay within 32-bit integers.
RoundsTo(L, sum, bufferLength) ==
  LET g == GCD(bufferLength, 1600)
  IN  L = 0 \/ (2 * L - 1) * (2 * L - 1) * 2601 * (bufferLength \div g)
                 <= (1600 \div g) * sum

\* LevelOf with Math.floor written for Math.round: the largest L with
\* L <= 100*rms/255, that is L^2 * 255^2 * N <= 100^2 * sum
LevelOfFloor(sum, bufferLength) ==
  LET g == GCD(bufferLength, 400)
      Reaches(L) == L * L * 2601 * (bufferLength \div g) <= (400 \div g) * sum
  IN  CHOOSE L \in 0..100 : Reaches(L) /\ (L = 100 \/ ~Reaches(L + 1))

\* RoundsTo is monotone in L, so the largest L is the one whose successor fails
LevelOf(sum, bufferLength) ==
  CHOOSE L \in 0..100 :
    RoundsTo(L, sum, bufferLength) /\ (L = 100 \/ ~RoundsTo(L + 1, sum, bufferLength))

\* this.audioLevel = Math.round((rms / 255) * 100)
AudioLevel(d) == LevelOf(SumSquares(d), Len(d))

\* Ratio without the test totalSum > 0: 0 / 0 when every bin is 0
RatioUnguarded(midFreqSum, totalSum) == << midFreqSum, totalSum >>

\* const midFreqRatio = totalSum > 0 ? midFreqSum / totalSum : 0, kept as the
\* fraction <<numerator, denominator>>
Ratio(midFreqSum, totalSum) ==
  IF totalSum > 0 THEN << midFreqSum, totalSum >> ELSE << 0, 1 >>

MidFreqRatio(d) == Ratio(MidFreqSum(d), TotalSum(d))

\* midFreqRatio > 0.3, with midFreqRatio = totalSum > 0 ? midFreqSum / totalSum : 0.
\* The quotient of two integers exceeds the double 0.3 exactly when
\* 10 * midFreqSum > 3 * totalSum.
RatioAbove03(midFreqSum, totalSum) ==
  totalSum > 0 /\ 10 * midFreqSum > 3 * totalSum

MidFreqRatioAbove03(d) == RatioAbove03(MidFreqSum(d), TotalSum(d))

\* HasSignal without the test of the level
HasSignalRatioOnly(level, threshold, ratioAbove03) == ratioAbove03

\* HasSignal with || written for &&
HasSignalEither(level, threshold, ratioAbove03) ==
  level > threshold \/ ratioAbove03

\* let hasSignal = this.audioLevel > this.SIGNAL_THRESHOLD && midFreqRatio > 0.3
HasSignal(level, threshold, ratioAbove03) ==
  level > threshold /\ ratioAbove03

----------------------------------------------------------------------------
(* Inputs of the model *)

\* An option of the constructor: << >> when absent, <<v>> when passed as v
ThresholdOptions == {<< >>, <<0>>, <<15>>}
DebounceOptions == {<< >>, <<0>>, <<2>>}
ConfirmOptions == {<< >>, <<0>>, <<2>>}

\* Arguments of setSignalThreshold and setDebounceMs
ThresholdArguments == {50}
DebounceArguments == {3}

\* analyser.frequencyBinCount: half the fftSize
frequencyBinCount == fftSize \div 2

\* A snapshot of N bins holding lo below the mid band, mid in it, hi above it
Spectrum(N, lo, mid, hi) ==
  [i \in 1..N |-> IF i - 1 < MidFreqStart(N) THEN lo
                  ELSE IF i - 1 < MidFreqEnd(N) THEN mid ELSE hi]

\* A snapshot of N bins, all 0 but bin k (0-based), which holds m
Spike(N, k, m) == [i \in 1..N |-> IF i - 1 = k THEN m ELSE 0]

Silence == Spectrum(frequencyBinCount, 0, 0, 0)
Speech == Spectrum(frequencyBinCount, 10, 200, 10)      \* level 43, mid-heavy
Rumble == Spectrum(frequencyBinCount, 255, 30, 10)      \* level 31, low-heavy

\* What getByteFrequencyData delivers to the ticks of the monitoring loop
MonitorSnapshots == {Silence, Speech, Rumble}

\* The magnitudes the wider family of snapshots is built from: 89 in the mid
\* band against 91 elsewhere puts exactly 3/10 of the total in the mid band
Magnitudes == {0, 10, 89, 91, 200, 255}

\* The frequencyBinCount of other analysers that the analyser-injected class
\* can be given (fftSize 32, 64 and 128)
BinCounts == {16, 32, 64}

\* The snapshots the classifier is examined on: every uniform one, every
\* three-band one over Magnitudes, single bins at the edges of the mid band,
\* and uniform ones of the other bin counts
ClassifySnapshots ==
  {Spectrum(frequencyBinCount, m, m, m) : m \in 0..MaxMagnitude}
  \cup {Spectrum(frequencyBinCount, b[1], b[2], b[3]) :
          b \in Magnitudes \X Magnitudes \X Magnitudes}
  \cup {Spike(frequencyBinCount, k, m) : k \in {0, 11, 12, 50, 51, 127}, m \in {1, 255}}
  \cup {Spectrum(N, m, m, m) : N \in BinCounts, m \in {0, 1, 100, MaxMagnitude}}

\* The thresholds the classifier is examined on: audioLevel is never below 0
\* and never exceeds 100
ClassifyThresholds == -1..100

\* What the loops of _monitor compute from the snapshot d
Measurement(d) ==
  [audioLevel |-> AudioLevel(d), midFreqRatio |-> MidFreqRatio(d),
   ratioAbove03 |-> MidFreqRatioAbove03(d)]

\* The loops of _monitor over each snapshot of the model, evaluated once
MeasuredMonitoring == [d \in MonitorSnapshots |-> Measurement(d)]
MeasuredClassifying == [d \in ClassifySnapshots |-> Measurement(d)]

Measured(d) ==
  IF d \in MonitorSnapshots THEN MeasuredMonitoring[d] ELSE MeasuredClassifying[d]

----------------------------------------------------------------------------
(* The debounce state machine: lines 319-357 (and 89-128) of _monitor *)

\* options.x || fallback: an absent option and 0 are both falsy
OrDefault(option, fallback) ==
  IF option = << >> THEN fallback
  ELSE IF option[1] = 0 THEN fallback ELSE option[1]

SignalState ==
  [lastHasSignal |-> lastHasSignal,
   signalOnTimestamp |-> signalOnTimestamp,
   signalOffTimestamp |-> signalOffTimestamp]

InitialSignalState ==
  [lastHasSignal |-> FALSE, signalOnTimestamp |-> null, signalOffTimestamp |-> null]

\* the argument of onSignalStateChanged
Event(has, level, now) == [hasSignal |-> has, audioLevel |-> level, timestamp |-> now]

\* OnsetConfirmed with > written for >=
OnsetConfirmedStrict(now, since, confirmMs) == now - since > confirmMs

\* timeSinceOnStart >= this.SIGNAL_ON_CONFIRM_MS
OnsetConfirmed(now, since, confirmMs) == now - since >= confirmMs

\* OffsetConfirmed with > written for >=
OffsetConfirmedStrict(now, since, debounceMs) == now - since > debounceMs

\* timeSinceSignalLost >= this.SIGNAL_OFF_DEBOUNCE_MS
OffsetConfirmed(now, since, debounceMs) == now - since >= debounceMs

\* OnsetBranch with the call of onSignalStateChanged moved out of the inner if
OnsetBranchEmitsEarly(s, level, now, confirmMs) ==
  LET since == IF s.signalOnTimestamp = null THEN <<now>> ELSE s.signalOnTimestamp
  IN  IF OnsetConfirmed(now, since[1], confirmMs)
      THEN [state |-> [lastHasSignal |-> TRUE, signalOnTimestamp |-> null,
                       signalOffTimestamp |-> null],
            events |-> << Event(TRUE, level, now) >>]
      ELSE [state |-> [s EXCEPT !.signalOnTimestamp = since],
            events |-> << Event(TRUE, level, now) >>]

\* if (hasSignal && !this.lastHasSignal) { ... }
OnsetBranch(s, level, now, confirmMs) ==
  LET since == IF s.signalOnTimestamp = null THEN <<now>> ELSE s.signalOnTimestamp
  IN  IF OnsetConfirmed(now, since[1], confirmMs)
      THEN [state |-> [lastHasSignal |-> TRUE, signalOnTimestamp |-> null,
                       signalOffTimestamp |-> null],
            events |-> << Event(TRUE, level, now) >>]
      ELSE [state |-> [s EXCEPT !.signalOnTimestamp = since], events |-> << >>]

\* OffsetBranch that commits the offset without calling onSignalStateChanged
OffsetBranchSilent(v, s, level, now, debounceMs) ==
  LET since == IF s.signalOffTimestamp = null THEN <<now>> ELSE s.signalOffTimestamp
  IN  IF OffsetConfirmed(now, since[1], debounceMs)
      THEN [state |-> [s EXCEPT !.lastHasSignal = FALSE,
                                !.signalOffTimestamp =
                                   IF v = "self" THEN null ELSE since],
            events |-> << >>]
      ELSE [state |-> [s EXCEPT !.signalOffTimestamp = since], events |-> << >>]

\* else if (!hasSignal && this.lastHasSignal) { ... }: only the
\* self-initialising class clears signalOffTimestamp when it commits (line 346)
OffsetBranch(v, s, level, now, debounceMs) ==
  LET since == IF s.signalOffTimestamp = null THEN <<now>> ELSE s.signalOffTimestamp
  IN  IF OffsetConfirmed(now, since[1], debounceMs)
      THEN [state |-> [s EXCEPT !.lastHasSignal = FALSE,
                                !.signalOffTimestamp =
                                   IF v = "self" THEN null ELSE since],
            events |-> << Event(FALSE, level, now) >>]
      ELSE [state |-> [s EXCEPT !.signalOffTimestamp = since], events |-> << >>]

\* Debounce without its last else if, the false-alarm reset
DebounceNoFalseAlarmReset(v, s, raw, level, now, confirmMs, debounceMs) ==
  IF raw /\ ~s.lastHasSignal
    THEN OnsetBranch(s, level, now, confirmMs)
  ELSE IF ~raw /\ s.lastHasSignal
    THEN OffsetBranch(v, s, level, now, debounceMs)
  ELSE [state |-> s, events |-> << >>]

\* the if / else if / else if chain of _monitor
Debounce(v, s, raw, level, now, confirmMs, debounceMs) ==
  IF raw /\ ~s.lastHasSignal
    THEN OnsetBranch(s, level, now, confirmMs)
  ELSE IF ~raw /\ s.lastHasSignal
    THEN OffsetBranch(v, s, level, now, debounceMs)
  ELSE IF ~raw /\ s.signalOnTimestamp # null /\ ~s.lastHasSignal
    THEN [state |-> [s EXCEPT !.signalOnTimestamp = null], events |-> << >>]
  ELSE [state |-> s, events |-> << >>]

\* requestAnimationFrame returns an id no pending or just-fired request has
FreshId(used) == CHOOSE n \in 1..(Cardinality(used) + 1) :
                    n \notin used /\ \A k \in 1..(n - 1) : k \in used

IdsOf(maybe) == IF maybe = null THEN {} ELSE {maybe[1]}

----------------------------------------------------------------------------
(* History of the runs of ticks, kept for the properties below *)

Min(a, b) == IF a < b THEN a ELSE b

\* The run of raw-false ticks that began in the stable-on state (lastHasSignal
\* true, no offset timer pending): its first tick time t0, how many of its
\* ticks (up to 2) came at or after t0 + SIGNAL_OFF_DEBOUNCE_MS, and how many
\* of them (up to 2) passed a hasSignal:false event to the observer.
OffRunAfter(raw, s, now, events) ==
  LET was == IF offRun # null THEN offRun[1] ELSE [t0 |-> now, due |-> 0, emits |-> 0]
      dueNow == IF now - was.t0 >= SIGNAL_OFF_DEBOUNCE_MS THEN 1 ELSE 0
      fired == IF events # << >> THEN 1 ELSE 0
  IN  IF raw THEN null
      ELSE IF offRun = null /\ ~(s.lastHasSignal /\ s.signalOffTimestamp = null)
        THEN null
      ELSE << [t0 |-> was.t0, due |-> Min(2, was.due + dueNow),
               emits |-> Min(2, was.emits + fired)] >>

\* A step that runs no tick passes nothing to the observers
NoTick ==
  /\ tickOf' = "none"
  /\ pre' = null
  /\ emitted' = << >>
  /\ levelNotified' = << >>
  /\ nested' = 0
  /\ lastEvent' = lastEvent

\* The hasSignal of the last event passed to onSignalStateChanged, after a step
\* that passed events
LastEventAfter(events) ==
  IF events = << >> THEN lastEvent ELSE << events[Len(events)].hasSignal >>

\* CleanupCalls without the test if (this.animationId)
CleanupCallsUnguarded(animation, stream, context) ==
  << "cancelAnimationFrame" >>
  \o (IF stream THEN << "track.stop" >> ELSE << >>)
  \o (IF context THEN << "audioContext.close" >> ELSE << >>)

\* The calls stopMonitoring() and stop() make on the frame request, the
\* stream and the context they hold: if (this.animationId) ..., if
\* (this.audioStream) ..., if (this.audioContext) ...
CleanupCalls(animation, stream, context) ==
  (IF animation # null THEN << "cancelAnimationFrame" >> ELSE << >>)
  \o (IF stream THEN << "track.stop" >> ELSE << >>)
  \o (IF context THEN << "audioContext.close" >> ELSE << >>)

\* The last two of the calls of stop() and stopMonitoring() made in succession
SuccessionAfter(call) ==
  IF succession = << >> THEN << call >>
  ELSE << succession[Len(succession)], call >>

\* A step that is neither stop() nor stopMonitoring()
NoCleanup ==
  /\ cleanup' = << >>
  /\ succession' = << >>

----------------------------------------------------------------------------
(* The operations *)

\* constructor (lines 6-24 and 178-202)
Constructed(given) ==
  /\ variant \in {"injected", "self"}
  /\ analyser \in (IF variant = "injected" THEN BOOLEAN ELSE {FALSE})
  /\ audioStream = FALSE
  /\ audioContext = FALSE
  /\ audioLevel = 0
  /\ lastHasSignal = FALSE
  /\ signalOffTimestamp = null
  /\ signalOnTimestamp = null
  /\ SIGNAL_THRESHOLD =
         OrDefault(given.signalThreshold,
                   IF variant = "injected" THEN DefaultThresholdInjected
                                               ELSE DefaultThresholdSelf)
  /\ SIGNAL_OFF_DEBOUNCE_MS =
         OrDefault(given.debounceMs,
                   IF variant = "injected" THEN DefaultDebounceInjected
                                               ELSE DefaultDebounceSelf)
  /\ SIGNAL_ON_CONFIRM_MS =
         OrDefault(given.confirmMs,
                   IF variant = "injected" THEN DefaultConfirmInjected
                                               ELSE DefaultConfirmSelf)
  /\ isMonitoring = FALSE
  /\ animationId = null
  /\ frames = {}
  /\ clock = 0
  /\ dataArray = << >>
  /\ midFreqRatio = null
  /\ hasSignal = FALSE
  /\ tickOf = "none"
  /\ pre = null
  /\ emitted = << >>
  /\ levelNotified = << >>
  /\ runStart = null
  /\ offRun = null
  /\ stoppedBefore = FALSE
  /\ nested = 0
  /\ cleanup = << >>
  /\ succession = << >>
  /\ lastEvent = null

\* A recognition object with no session
NoSession == [phase |-> "idle", halt |-> "none", owner |-> "none", haltedBy |-> "none"]

\* The page script and its services as they are when the script has run
\* (speech-transcriber.js lines 7-16, app.js lines 33-34)
PageInit ==
  /\ translation = null
  /\ recognition = NoSession
  /\ transcriber = [isTranscribing |-> FALSE, currentResolve |-> null,
                    currentReject |-> null, currentCallback |-> null,
                    permissionGranted |-> FALSE, currentTranscript |-> << >>,
                    permissionTimer |-> FALSE]
  /\ promises = << >>
  /\ page = [loaded |-> FALSE, autoStartEnabled |-> TRUE,
             isAutoStartRecording |-> FALSE, translating |-> << >>,
             speaking |-> FALSE]

\* The options objects the constructor is given
Options ==
  [signalThreshold : ThresholdOptions, debounceMs : DebounceOptions,
   confirmMs : ConfirmOptions]

\* No TranslationService, AudioRecorder, main process or history list beside
\* the detector
ShellInit ==
  /\ service = null
  /\ recorder = null
  /\ electron = null
  /\ transcriptionList = null

Init ==
  /\ \E given \in Options : Constructed(given) /\ options = null /\ PageInit
  /\ ShellInit

\* _monitor past its guard (lines 286-359 and 52-130), called by caller at time
\* now while the frame requests in pending are outstanding, reading snap
Monitor(caller, now, pending, snap) ==
  LET level == Measured(snap).audioLevel
      raw == HasSignal(level, SIGNAL_THRESHOLD, Measured(snap).ratioAbove03)
      out == Debounce(variant, SignalState, raw, level, now,
                      SIGNAL_ON_CONFIRM_MS, SIGNAL_OFF_DEBOUNCE_MS)
      id == FreshId(pending \cup IdsOf(animationId))
  IN  /\ dataArray' = snap
      /\ audioLevel' = level
      /\ midFreqRatio' = Measured(snap).midFreqRatio
      /\ nested' = 0
      /\ levelNotified' = << level >>
      /\ hasSignal' = raw
      /\ lastHasSignal' = out.state.lastHasSignal
      /\ signalOnTimestamp' = out.state.signalOnTimestamp
      /\ signalOffTimestamp' = out.state.signalOffTimestamp
      /\ emitted' = out.events
      /\ lastEvent' = LastEventAfter(out.events)
      /\ animationId' = << id >>
      /\ frames' = pending \cup {id}
      /\ tickOf' = caller
      /\ pre' = << SignalState >>
      /\ runStart' = IF runStart # null /\ hasSignal = raw THEN runStart ELSE << now >>
      /\ offRun' = OffRunAfter(raw, SignalState, now, out.events)

\* MonitorGuard without the test of this.isMonitoring
MonitorGuardAnalyserOnly(monitoring, attached) == ~attached

\* if (!this.isMonitoring || !this.analyser) return
MonitorGuard(monitoring, attached) == ~monitoring \/ ~attached

\* _monitor stopped by its guard
MonitorReturns(pending) ==
  /\ NoTick
  /\ frames' = pending
  /\ UNCHANGED << audioLevel, lastHasSignal, signalOffTimestamp, signalOnTimestamp,
                  animationId, dataArray, midFreqRatio, hasSignal, runStart, offRun >>

\* initialize() (lines 207-239), called on a detector that has no analyser yet:
\* getUserMedia is granted or rejected
Initialize(granted) ==
  /\ variant = "self"
  /\ ~analyser
  /\ analyser' = (granted \/ analyser)
  /\ audioStream' = (granted \/ audioStream)
  /\ audioContext' = (granted \/ audioContext)
  /\ NoTick
  /\ NoCleanup
  /\ UNCHANGED << pageVars, variant, audioLevel, lastHasSignal, signalOffTimestamp,
                  signalOnTimestamp, SIGNAL_THRESHOLD, SIGNAL_OFF_DEBOUNCE_MS,
                  SIGNAL_ON_CONFIRM_MS, isMonitoring, animationId, frames, clock,
                  dataArray, midFreqRatio, hasSignal, runStart, offRun, stoppedBefore >>

\* startMonitoring() (lines 29-33 and 244-252), called gap ms after the last step
StartMonitoring(gap, snap) ==
  /\ clock + gap <= MaxTime
  /\ clock' = clock + gap
  /\ NoCleanup
  /\ UNCHANGED << pageVars, variant, analyser, audioStream, audioContext, SIGNAL_THRESHOLD,
                  SIGNAL_OFF_DEBOUNCE_MS, SIGNAL_ON_CONFIRM_MS, stoppedBefore >>
  /\ IF isMonitoring \/ (variant = "self" /\ ~analyser)
       THEN /\ MonitorReturns(frames)
            /\ UNCHANGED isMonitoring
       ELSE /\ isMonitoring' = TRUE
            /\ IF analyser THEN Monitor("startMonitoring", clock', frames, snap)
                           ELSE MonitorReturns(frames)

\* stopMonitoring() (lines 38-44 and 257-263)
StopMonitoring ==
  /\ isMonitoring' = FALSE
  /\ frames' = frames \ IdsOf(animationId)
  /\ animationId' = null
  /\ stoppedBefore' = TRUE
  /\ cleanup' = CleanupCalls(animationId, FALSE, FALSE)
  /\ succession' = SuccessionAfter("stopMonitoring")
  /\ NoTick
  /\ UNCHANGED << pageVars, variant, analyser, audioStream, audioContext, audioLevel,
                  lastHasSignal, signalOffTimestamp, signalOnTimestamp,
                  SIGNAL_THRESHOLD, SIGNAL_OFF_DEBOUNCE_MS, SIGNAL_ON_CONFIRM_MS,
                  clock, dataArray, midFreqRatio, hasSignal, runStart, offRun >>

\* stop() (lines 268-278) of the self-initialising class: stopMonitoring(),
\* then the stream and the context are released if they are held
Stop ==
  /\ variant = "self"
  /\ isMonitoring' = FALSE
  /\ frames' = frames \ IdsOf(animationId)
  /\ animationId' = null
  /\ audioStream' = FALSE
  /\ audioContext' = FALSE
  /\ stoppedBefore' = TRUE
  /\ cleanup' = CleanupCalls(animationId, audioStream, audioContext)
  /\ succession' = SuccessionAfter("stop")
  /\ NoTick
  /\ UNCHANGED << pageVars, variant, analyser, audioLevel, lastHasSignal, signalOffTimestamp,
                  signalOnTimestamp, SIGNAL_THRESHOLD, SIGNAL_OFF_DEBOUNCE_MS,
                  SIGNAL_ON_CONFIRM_MS, clock, dataArray, midFreqRatio, hasSignal,
                  runStart, offRun >>

\* the callback () => this._monitor() of a pending frame request fires gap ms
\* after the last step
AnimationFrame(id, gap, snap) ==
  /\ id \in frames
  /\ clock + gap <= MaxTime
  /\ clock' = clock + gap
  /\ NoCleanup
  /\ UNCHANGED << pageVars, variant, analyser, audioStream, audioContext, SIGNAL_THRESHOLD,
                  SIGNAL_OFF_DEBOUNCE_MS, SIGNAL_ON_CONFIRM_MS, isMonitoring,
                  stoppedBefore >>
  /\ IF MonitorGuard(isMonitoring, analyser)
       THEN MonitorReturns(frames \ {id})
       ELSE Monitor("frame", clock', frames \ {id}, snap)

\* the state reset() leaves (lines 147-151 and 376-380)
ResetState(s) == [s EXCEPT !.lastHasSignal = FALSE, !.signalOffTimestamp = null]

\* Reset that also calls stopMonitoring()
ResetStopsMonitoring ==
  /\ audioLevel' = 0
  /\ lastHasSignal' = ResetState(SignalState).lastHasSignal
  /\ signalOnTimestamp' = ResetState(SignalState).signalOnTimestamp
  /\ signalOffTimestamp' = ResetState(SignalState).signalOffTimestamp
  /\ offRun' = null
  /\ isMonitoring' = FALSE
  /\ frames' = frames \ IdsOf(animationId)
  /\ animationId' = null
  /\ NoTick
  /\ NoCleanup
  /\ UNCHANGED << pageVars, variant, analyser, audioStream, audioContext, SIGNAL_THRESHOLD,
                  SIGNAL_OFF_DEBOUNCE_MS, SIGNAL_ON_CONFIRM_MS, clock, dataArray,
                  midFreqRatio, hasSignal, runStart, stoppedBefore >>

\* reset()
Reset ==
  /\ audioLevel' = 0
  /\ lastHasSignal' = ResetState(SignalState).lastHasSignal
  /\ signalOnTimestamp' = ResetState(SignalState).signalOnTimestamp
  /\ signalOffTimestamp' = ResetState(SignalState).signalOffTimestamp
  /\ offRun' = null
  /\ NoTick
  /\ NoCleanup
  /\ UNCHANGED << pageVars, variant, analyser, audioStream, audioContext, SIGNAL_THRESHOLD,
                  SIGNAL_OFF_DEBOUNCE_MS, SIGNAL_ON_CONFIRM_MS, isMonitoring,
                  animationId, frames, clock, dataArray, midFreqRatio, hasSignal,
                  runStart, stoppedBefore >>

\* setSignalThreshold(threshold) (lines 156-158 and 385-387)
SetSignalThreshold(threshold) ==
  /\ SIGNAL_THRESHOLD' = threshold
  /\ NoTick
  /\ NoCleanup
  /\ UNCHANGED << pageVars, variant, analyser, audioStream, audioContext, audioLevel,
                  lastHasSignal, signalOffTimestamp, signalOnTimestamp,
                  SIGNAL_OFF_DEBOUNCE_MS, SIGNAL_ON_CONFIRM_MS, isMonitoring,
                  animationId, frames, clock, dataArray, midFreqRatio, hasSignal,
                  runStart, offRun, stoppedBefore >>

\* SetDebounceMs that also restarts a pending offset confirmation
SetDebounceMsRestartsTimer(ms) ==
  /\ SIGNAL_OFF_DEBOUNCE_MS' = ms
  /\ signalOffTimestamp' = null
  /\ NoTick
  /\ NoCleanup
  /\ UNCHANGED << pageVars, variant, analyser, audioStream, audioContext, audioLevel,
                  lastHasSignal, signalOnTimestamp, SIGNAL_THRESHOLD,
                  SIGNAL_ON_CONFIRM_MS, isMonitoring, animationId, frames, clock,
                  dataArray, midFreqRatio, hasSignal, runStart, offRun,
                  stoppedBefore >>

\* setDebounceMs(ms) (lines 163-165 and 392-394)
SetDebounceMs(ms) ==
  /\ SIGNAL_OFF_DEBOUNCE_MS' = ms
  /\ NoTick
  /\ NoCleanup
  /\ UNCHANGED << pageVars, variant, analyser, audioStream, audioContext, audioLevel,
                  lastHasSignal, signalOffTimestamp, signalOnTimestamp,
                  SIGNAL_THRESHOLD, SIGNAL_ON_CONFIRM_MS, isMonitoring,
                  animationId, frames, clock, dataArray, midFreqRatio, hasSignal,
                  runStart, offRun, stoppedBefore >>

Next ==
  \/ \E granted \in BOOLEAN : Initialize(granted)
  \/ \E gap \in 0..MaxGap, snap \in MonitorSnapshots : StartMonitoring(gap, snap)
  \/ StopMonitoring
  \/ \E id \in frames, gap \in 0..MaxGap, snap \in MonitorSnapshots :
       AnimationFrame(id, gap, snap)
  \/ Reset
  \/ \E threshold \in ThresholdArguments : SetSignalThreshold(threshold)
  \/ \E ms \in DebounceArguments : SetDebounceMs(ms)

Spec == Init /\ [][Next]_vars

----------------------------------------------------------------------------
(* Monitoring only: the detector is constructed, given its analyser and
   started, and then only frames fire *)

NextTicks ==
  \/ \E granted \in BOOLEAN : Initialize(granted)
  \/ \E gap \in 0..MaxGap, snap \in MonitorSnapshots : StartMonitoring(gap, snap)
  \/ \E id \in frames, gap \in 0..MaxGap, snap \in MonitorSnapshots :
       AnimationFrame(id, gap, snap)

SpecTicks == Init /\ [][NextTicks]_vars

\* The same, with the options the constructor was given kept beside the detector
InitOptions ==
  /\ \E given \in Options : Constructed(given) /\ options = << given >> /\ PageInit
  /\ ShellInit

SpecOptions == InitOptions /\ [][NextTicks]_vars

----------------------------------------------------------------------------
(* The classifier alone: a detector built with the default windows is given a
   threshold and runs its first tick on a snapshot of the wider family *)

InitClassify ==
  /\ Init
  /\ variant = "injected" => analyser
  /\ SIGNAL_OFF_DEBOUNCE_MS \in {DefaultDebounceInjected, DefaultDebounceSelf}
  /\ SIGNAL_ON_CONFIRM_MS \in {DefaultConfirmInjected, DefaultConfirmSelf}

\* setSignalThreshold before monitoring starts
Retune(threshold) ==
  /\ ~isMonitoring
  /\ SetSignalThreshold(threshold)

\* the first startMonitoring(), whose tick reads snap
FirstTick(snap) ==
  /\ ~isMonitoring
  /\ variant = "self" => Len(snap) = frequencyBinCount
  /\ StartMonitoring(0, snap)

NextClassify ==
  \/ \E granted \in BOOLEAN : Initialize(granted)
  \/ \E threshold \in ClassifyThresholds : Retune(threshold)
  \/ \E snap \in ClassifySnapshots : FirstTick(snap)

SpecClassify == InitClassify /\ [][NextClassify]_vars

----------------------------------------------------------------------------
(* The life of a self-initialising detector: monitoring, stopMonitoring() and
   stop() *)

NextLifecycle ==
  \/ \E granted \in BOOLEAN : Initialize(granted)
  \/ \E gap \in 0..MaxGap, snap \in MonitorSnapshots : StartMonitoring(gap, snap)
  \/ StopMonitoring
  \/ Stop
  \/ \E id \in frames, gap \in 0..MaxGap, snap \in MonitorSnapshots :
       AnimationFrame(id, gap, snap)

SpecLifecycle == Init /\ [][NextLifecycle]_vars

----------------------------------------------------------------------------
(* Every operation but reset() *)

NextNoReset ==
  \/ \E granted \in BOOLEAN : Initialize(granted)
  \/ \E gap \in 0..MaxGap, snap \in MonitorSnapshots : StartMonitoring(gap, snap)
  \/ StopMonitoring
  \/ \E id \in frames, gap \in 0..MaxGap, snap \in MonitorSnapshots :
       AnimationFrame(id, gap, snap)
  \/ \E threshold \in ThresholdArguments : SetSignalThreshold(threshold)
  \/ \E ms \in DebounceArguments : SetDebounceMs(ms)

SpecNoReset == Init /\ [][NextNoReset]_vars

----------------------------------------------------------------------------
(* Observers that call the detector back.  onAudioLevelChanged (line 314) and
   onSignalStateChanged (lines 330 and 347) are called in the middle of a
   tick, and what they call runs before the tick goes on.  A tick entered
   from inside a callback dispatches to observers that return without calling
   the detector.  The history of the runs counts the ticks of one step as one
   tick. *)

\* The calls an observer makes on the detector before it returns
ObserverCalls ==
  {<< >>, <<"stopMonitoring">>, <<"stopMonitoring", "startMonitoring">>}

\* The fields a tick reads and writes, the frame requests in pending, and
\* what the step has done so far
Detector(pending) ==
  [isMonitoring |-> isMonitoring, animationId |-> animationId, frames |-> pending,
   audioLevel |-> audioLevel, state |-> SignalState, hasSignal |-> hasSignal,
   fired |-> FALSE, emitted |-> << >>, levelNotified |-> << >>, nested |-> 0,
   cleanup |-> << >>, stoppedBefore |-> stoppedBefore]

\* lines 286-296 and 314: the level is stored and passed to onAudioLevelChanged
Measure(D, snap) ==
  [D EXCEPT !.audioLevel = Measured(snap).audioLevel,
            !.levelNotified = Append(@, Measured(snap).audioLevel)]

\* lines 317-357: the raw verdict and the if / else if / else if chain, which
\* read this.audioLevel and the signal state as the observer left them
Classify(D, now, snap) ==
  LET raw == HasSignal(D.audioLevel, SIGNAL_THRESHOLD, Measured(snap).ratioAbove03)
      out == Debounce(variant, D.state, raw, D.audioLevel, now,
                      SIGNAL_ON_CONFIRM_MS, SIGNAL_OFF_DEBOUNCE_MS)
  IN  [D EXCEPT !.hasSignal = raw, !.state = out.state,
                !.fired = (out.events # << >>), !.emitted = @ \o out.events]

\* line 359: this.animationId = requestAnimationFrame(() => this._monitor())
Request(D) ==
  LET id == FreshId(D.frames \cup IdsOf(D.animationId))
  IN  [D EXCEPT !.animationId = << id >>, !.frames = @ \cup {id}]

\* stopMonitoring() called by an observer
StopMonitoringIn(D) ==
  [D EXCEPT !.isMonitoring = FALSE,
            !.frames = @ \ IdsOf(D.animationId),
            !.animationId = null,
            !.cleanup = @ \o CleanupCalls(D.animationId, FALSE, FALSE),
            !.stoppedBefore = TRUE]

\* _monitor() entered while the tick that called the observer is executing
MonitorIn(D, now, snap) ==
  IF MonitorGuard(D.isMonitoring, analyser) THEN D
  ELSE Request(Classify(Measure([D EXCEPT !.nested = @ + 1], snap), now, snap))

\* startMonitoring() called by an observer
StartMonitoringIn(D, now, snap) ==
  IF D.isMonitoring \/ (variant = "self" /\ ~analyser) THEN D
  ELSE MonitorIn([D EXCEPT !.isMonitoring = TRUE], now, snap)

\* the observer makes its calls in order
RECURSIVE Observer(_, _, _, _)
Observer(D, calls, now, snap) ==
  IF calls = << >> THEN D
  ELSE Observer(IF Head(calls) = "stopMonitoring" THEN StopMonitoringIn(D)
                ELSE StartMonitoringIn(D, now, snap),
                Tail(calls), now, snap)

\* _monitor past its guard down to line 357, with an onAudioLevelChanged that
\* makes the calls onLevel
MonitorHeard(D, now, snap, onLevel) ==
  Classify(Observer(Measure(D, snap), onLevel, now, snap), now, snap)

\* the rest of that tick: the onSignalStateChanged it has called at line 330 or
\* 347, if it has, makes the calls onState, and line 359 requests the next frame
MonitorTold(D, now, snap, onState) ==
  Request(IF D.fired THEN Observer(D, onState, now, snap) ELSE D)

\* The step of a tick that left D
Observed(caller, now, snap, D) ==
  /\ Cardinality(D.frames) <= MaxFrames
  /\ isMonitoring' = D.isMonitoring
  /\ animationId' = D.animationId
  /\ frames' = D.frames
  /\ audioLevel' = D.audioLevel
  /\ lastHasSignal' = D.state.lastHasSignal
  /\ signalOnTimestamp' = D.state.signalOnTimestamp
  /\ signalOffTimestamp' = D.state.signalOffTimestamp
  /\ hasSignal' = D.hasSignal
  /\ emitted' = D.emitted
  /\ lastEvent' = LastEventAfter(D.emitted)
  /\ levelNotified' = D.levelNotified
  /\ nested' = D.nested
  /\ cleanup' = D.cleanup
  /\ succession' = << >>
  /\ stoppedBefore' = D.stoppedBefore
  /\ dataArray' = snap
  /\ midFreqRatio' = Measured(snap).midFreqRatio
  /\ tickOf' = caller
  /\ pre' = << SignalState >>
  /\ runStart' = IF runStart # null /\ hasSignal = D.hasSignal THEN runStart
                 ELSE << now >>
  /\ offRun' = OffRunAfter(D.hasSignal, SignalState, now, D.emitted)
  /\ UNCHANGED << pageVars, variant, analyser, audioStream, audioContext, SIGNAL_THRESHOLD,
                  SIGNAL_OFF_DEBOUNCE_MS, SIGNAL_ON_CONFIRM_MS >>

\* _monitor past its guard (lines 286-359) on the detector D0, under observers
\* that call back
MonitorWith(caller, now, snap, D0) ==
  \E onLevel \in ObserverCalls :
    \E stepped \in {MonitorHeard(D0, now, snap, onLevel)} :
      \E onState \in (IF stepped.fired THEN ObserverCalls ELSE {<< >>}) :
        \E D \in {MonitorTold(stepped, now, snap, onState)} :
          Observed(caller, now, snap, D)

\* startMonitoring() that runs the first tick, under such observers
ObservedStartMonitoring(gap, snap) ==
  /\ ~isMonitoring
  /\ analyser
  /\ clock + gap <= MaxTime
  /\ clock' = clock + gap
  /\ MonitorWith("startMonitoring", clock + gap, snap,
                 [Detector(frames) EXCEPT !.isMonitoring = TRUE])

\* a frame callback that passes the guard, under such observers
ObservedAnimationFrame(id, gap, snap) ==
  /\ id \in frames
  /\ ~MonitorGuard(isMonitoring, analyser)
  /\ clock + gap <= MaxTime
  /\ clock' = clock + gap
  /\ MonitorWith("frame", clock + gap, snap, Detector(frames \ {id}))

\* What the ticks read under such observers
ObservedSnapshots == {Silence, Speech}

\* The detector is constructed as the pages construct it, with a threshold
\* of 15 and a debounce window, and is given its analyser
InitObserved ==
  /\ Init
  /\ variant = "injected" => analyser
  /\ SIGNAL_THRESHOLD = OrDefault(<<15>>, DefaultThresholdInjected)
  /\ SIGNAL_OFF_DEBOUNCE_MS = OrDefault(<<2>>, DefaultDebounceInjected)
  /\ SIGNAL_ON_CONFIRM_MS \in {DefaultConfirmSelf, OrDefault(<<2>>, DefaultConfirmSelf)}

\* startMonitoring() that runs no tick
IdleStartMonitoring(gap) ==
  /\ isMonitoring \/ ~analyser
  /\ StartMonitoring(gap, Silence)

\* a frame callback that is stopped by the guard
IdleAnimationFrame(id, gap) ==
  /\ MonitorGuard(isMonitoring, analyser)
  /\ AnimationFrame(id, gap, Silence)

NextObserved ==
  \/ \E granted \in BOOLEAN : Initialize(granted)
  \/ \E gap \in 0..MaxGap : IdleStartMonitoring(gap)
  \/ StopMonitoring
  \/ \E id \in frames, gap \in 0..MaxGap : IdleAnimationFrame(id, gap)
  \/ \E gap \in 0..MaxGap, snap \in ObservedSnapshots :
       ObservedStartMonitoring(gap, snap)
  \/ \E id \in frames, gap \in 0..MaxGap, snap \in ObservedSnapshots :
       ObservedAnimationFrame(id, gap, snap)

SpecObserved == InitObserved /\ [][NextObserved]_vars

----------------------------------------------------------------------------
(* TranslationService.translateText (src/translator.js lines 137-189; the
   same code is AudioRecorder.translateText, src/audio-recorder-core.js lines
   415-467).  A string is <<cs>>, cs the sequence of its characters, " " a
   white-space character; null and undefined are << >>. *)

MaxMatches == 2

RECURSIVE TrimStart(_)
TrimStart(cs) == IF cs # << >> /\ Head(cs) = " " THEN TrimStart(Tail(cs)) ELSE cs

RECURSIVE TrimEnd(_)
TrimEnd(cs) ==
  IF cs # << >> /\ cs[Len(cs)] = " " THEN TrimEnd(SubSeq(cs, 1, Len(cs) - 1)) ELSE cs

\* String.prototype.trim
Trim(cs) == TrimEnd(TrimStart(cs))

\* !x || x.trim() === ""
Blank(x) == x = null \/ x[1] = << >> \/ Trim(x[1]) = << >>

\* for (let match of data.matches) if (match.translation && ...trim() !== "")
\* { translatedText = match.translation; break; }: << >> when no match has one
RECURSIVE FirstTranslation(_)
FirstTranslation(matches) ==
  IF matches = << >> THEN null
  ELSE IF ~Blank(Head(matches).translation) THEN Head(matches).translation
  ELSE FirstTranslation(Tail(matches))

\* lines 156-172: translatedText after the look into data.matches
TranslatedText(data) ==
  LET main == data.responseData[1].translatedText
  IN  IF Blank(main) /\ FirstTranslation(data.matches) # null
        THEN FirstTranslation(data.matches)
        ELSE main

\* catch (error) { ...; return text; } with a catch that throws again
CaughtRethrows(text, statuses) ==
  [settled |-> "rejected", value |-> null, statuses |-> Append(statuses, "error")]

\* catch (error) { ...; this.onStatusChanged?.(..., "error"); return text; }
Caught(text, statuses) ==
  [settled |-> "resolved", value |-> text, statuses |-> Append(statuses, "error")]

\* lines 146-184, after fetch has settled with reply: a rejected fetch, a
\* response that is not ok, a body that is not JSON, a responseStatus other
\* than 200, a missing responseData (a TypeError) and a blank translatedText
\* all throw into the catch
Translated(text, reply, statuses) ==
  IF reply.fetch = "rejects" \/ ~reply.ok \/ reply.body = null
    THEN Caught(text, statuses)
  ELSE IF reply.body[1].responseStatus # 200 \/ reply.body[1].responseData = null
    THEN Caught(text, statuses)
  ELSE IF Blank(TranslatedText(reply.body[1]))
    THEN Caught(text, statuses)
  ELSE [settled |-> "resolved", value |-> TranslatedText(reply.body[1]),
        statuses |-> statuses]

\* The texts translateText is called with
Texts ==
  {null, << << >> >>, << <<" ">> >>, << <<"a">> >>, << <<" ", "a", " ">> >>,
   << <<"a", " ", "b">> >>}

\* The translations a reply carries
Translations == {null, << << >> >>, << <<" ">> >>, << <<"x">> >>, << <<"y", " ">> >>}

Matches ==
  UNION {[1..n -> [translation : Translations \ {<< << >> >>}]] : n \in 0..MaxMatches}

\* What fetch and response.json() settle with
Replies ==
  {[fetch |-> "rejects", ok |-> FALSE, body |-> null]}
  \cup [fetch : {"fulfils"}, ok : {FALSE}, body : {null}]
  \cup [fetch : {"fulfils"}, ok : {TRUE},
        body : {null} \cup
               {<<d>> : d \in [responseStatus : {200, 403},
                               responseData : {null} \cup
                                 {<<r>> : r \in [translatedText : Translations]},
                               matches : Matches]}]

\* translateText(text) down to its await fetch(...) (lines 137-146)
TranslateText(text) ==
  /\ IF translation = null THEN TRUE ELSE translation[1].phase = "settled"
  /\ translation' =
       IF Blank(text)
         THEN << [text |-> text, phase |-> "settled", reply |-> null]
                 @@ Caught(text, << >>) >>
         ELSE << [text |-> text, phase |-> "fetch", reply |-> null,
                  settled |-> "pending", value |-> null,
                  statuses |-> << "active" >>] >>
  /\ UNCHANGED << detectorVars, shellVars, options, recognition, transcriber, promises, page >>

\* fetch settles and translateText runs to its end (lines 146-188)
FetchSettles(reply) ==
  /\ translation # null
  /\ translation[1].phase = "fetch"
  /\ translation' =
       << [text |-> translation[1].text, phase |-> "settled", reply |-> << reply >>]
          @@ Translated(translation[1].text, reply, translation[1].statuses) >>
  /\ UNCHANGED << detectorVars, shellVars, options, recognition, transcriber, promises, page >>

\* A page whose detector is the self-initialising one, built with no options
InitPage ==
  /\ Init
  /\ variant = "self"
  /\ SIGNAL_THRESHOLD = DefaultThresholdSelf
  /\ SIGNAL_OFF_DEBOUNCE_MS = DefaultDebounceSelf
  /\ SIGNAL_ON_CONFIRM_MS = DefaultConfirmSelf

InitTranslate == InitPage

NextTranslate ==
  \/ \E text \in Texts : TranslateText(text)
  \/ \E reply \in Replies : FetchSettles(reply)

SpecTranslate == InitTranslate /\ [][NextTranslate]_vars

----------------------------------------------------------------------------
(* SpeechTranscriber (src/speech-transcriber.js lines 6-204) and its
   SpeechRecognition object.  A recognition object that has been started has
   a session until its end event has fired; start() on it throws
   InvalidStateError meanwhile, and stop() and abort() do nothing without a
   session.  The events of a session are start, result, error and end, in that
   order, each of them but end optional. *)

MaxPromises == 3
MaxTranscript == 2

\* recognition.start() throws
StartThrows(r) == r.phase # "idle"

\* recognition.start() that does not throw, called by owner
RecognitionStart(r, owner) ==
  [phase |-> "starting", halt |-> "none", owner |-> owner, haltedBy |-> "none"]

\* recognition.stop() called by by
RecognitionStop(r, by) ==
  IF r.phase = "idle" \/ r.halt # "none" THEN r
  ELSE [r EXCEPT !.halt = "stop", !.haltedBy = by]

\* recognition.abort() called by by
RecognitionAbort(r, by) ==
  IF r.phase = "idle" \/ r.halt = "abort" THEN r
  ELSE [r EXCEPT !.halt = "abort", !.haltedBy = by]

\* The transcriber, its recognition object and the promises it has returned
Listener ==
  [recognition |-> recognition, transcriber |-> transcriber, promises |-> promises]

\* this.currentResolve?.(...) or this.currentReject?.(...): settling a promise
\* that is settled already does nothing
Settle(ps, maybe, outcome) ==
  IF maybe = null THEN ps
  ELSE IF ps[maybe[1]] = "pending" THEN [ps EXCEPT ![maybe[1]] = outcome]
  ELSE ps

\* fromMicrophone() (lines 142-170): the executor of the promise it returns
FromMicrophoneIn(L) ==
  LET p == Len(L.promises) + 1
      t == [L.transcriber EXCEPT !.currentResolve = << p >>,
                                 !.currentReject = << p >>,
                                 !.currentCallback = null,
                                 !.isTranscribing = TRUE]
      r == RecognitionAbort(L.recognition, "fromMicrophone")
  IN  IF StartThrows(r)
        THEN [recognition |-> r,
              transcriber |-> [t EXCEPT !.isTranscribing = FALSE],
              promises |-> Append(L.promises, "rejected")]
        ELSE [recognition |-> RecognitionStart(r, "fromMicrophone"),
              transcriber |-> t,
              promises |-> Append(L.promises, "pending")]

\* stop() (lines 187-193)
StopIn(L, by) ==
  [L EXCEPT !.transcriber.isTranscribing = FALSE,
            !.recognition = RecognitionStop(@, by)]

\* abort() (lines 198-203)
AbortIn(L) ==
  [L EXCEPT !.recognition = RecognitionAbort(@, "abort"),
            !.transcriber.isTranscribing = FALSE]

\* requestPermissionOnce() (lines 22-48) down to the promise it returns
RequestPermissionOnceIn(L) ==
  IF L.transcriber.permissionGranted \/ StartThrows(L.recognition) THEN L
  ELSE [L EXCEPT !.recognition = RecognitionStart(@, "requestPermissionOnce"),
                 !.transcriber.permissionTimer = TRUE]

\* the callback of the 500 ms timer of requestPermissionOnce() (lines 36-42)
PermissionTimerIn(L) ==
  [L EXCEPT !.recognition = RecognitionStop(@, "timer"),
            !.transcriber.permissionGranted = TRUE,
            !.transcriber.permissionTimer = FALSE]

\* recognition.onstart (lines 69-76)
OnStartIn(L) ==
  [L EXCEPT !.transcriber.permissionGranted = TRUE,
            !.transcriber.currentTranscript = << >>]

\* recognition.onresult (lines 78-82)
OnResultIn(L, cs) == [L EXCEPT !.transcriber.currentTranscript = @ \o cs]

\* recognition.onend (lines 84-112)
OnEndIn(L) ==
  IF Len(Trim(L.transcriber.currentTranscript)) = 0
    THEN [L EXCEPT !.transcriber.isTranscribing = FALSE,
                   !.promises = Settle(@, L.transcriber.currentReject, "rejected"),
                   !.transcriber.currentReject = null,
                   !.transcriber.currentResolve = null]
    ELSE [L EXCEPT !.promises = Settle(@, L.transcriber.currentResolve, "resolved"),
                   !.transcriber.currentTranscript = << >>,
                   !.transcriber.isTranscribing = FALSE,
                   !.transcriber.currentResolve = null,
                   !.transcriber.currentReject = null]

\* recognition.onerror (lines 114-126)
OnErrorIn(L) ==
  [L EXCEPT !.transcriber.isTranscribing = FALSE,
            !.promises = Settle(@, L.transcriber.currentReject, "rejected")]

\* The step leaves the transcriber, its recognition object and the promises as L
Heard(L) ==
  /\ recognition' = L.recognition
  /\ transcriber' = L.transcriber
  /\ promises' = L.promises

\* What a result event adds to the transcript
Results == {<< " " >>, << "a" >>}

\* The errors a session reports
Errors == {"network", "no-speech", "aborted"}

\* the session fires start
RecognitionStarts ==
  /\ recognition.phase = "starting"
  /\ recognition.halt # "abort"
  /\ Heard([OnStartIn(Listener) EXCEPT !.recognition.phase = "listening"])
  /\ UNCHANGED << detectorVars, shellVars, options, translation, page >>

\* the session fires result
RecognitionResult(cs) ==
  /\ recognition.phase = "listening"
  /\ recognition.halt # "abort"
  /\ Len(transcriber.currentTranscript) < MaxTranscript
  /\ Heard(OnResultIn(Listener, cs))
  /\ UNCHANGED << detectorVars, shellVars, options, translation, page >>

\* the session fires error; end is still to come
RecognitionError(error) ==
  /\ recognition.phase \in {"starting", "listening"}
  /\ error = "aborted" <=> recognition.halt = "abort"
  /\ Heard([OnErrorIn(Listener) EXCEPT !.recognition.phase = "failed"])
  /\ UNCHANGED << detectorVars, shellVars, options, translation, page >>

\* the session fires end
RecognitionEnds ==
  /\ recognition.phase # "idle"
  /\ Heard([OnEndIn(Listener) EXCEPT !.recognition = NoSession])
  /\ UNCHANGED << detectorVars, shellVars, options, translation, page >>

\* fromMicrophone() called
CallFromMicrophone ==
  /\ Len(promises) < MaxPromises
  /\ Heard(FromMicrophoneIn(Listener))
  /\ UNCHANGED << detectorVars, shellVars, options, translation, page >>

\* stop() called on a transcriber that is in use
CallStop ==
  /\ promises # << >>
  /\ Heard(StopIn(Listener, "stop"))
  /\ UNCHANGED << detectorVars, shellVars, options, translation, page >>

\* abort() called on a transcriber that is in use
CallAbort ==
  /\ promises # << >>
  /\ Heard(AbortIn(Listener))
  /\ UNCHANGED << detectorVars, shellVars, options, translation, page >>

NextTranscriber ==
  \/ CallFromMicrophone
  \/ CallStop
  \/ CallAbort
  \/ RecognitionStarts
  \/ \E cs \in Results : RecognitionResult(cs)
  \/ \E error \in Errors : RecognitionError(error)
  \/ RecognitionEnds

SpecTranscriber == InitPage /\ [][NextTranscriber]_vars

\* The recognition engine fires end after every start
SpecTranscriberFair == SpecTranscriber /\ WF_vars(RecognitionEnds)

----------------------------------------------------------------------------
(* The page script that uses SpeechTranscriber (src/unnamed/part_001).  Its
   DOMContentLoaded handler starts the monitoring of the detector and then
   calls requestPermissionOnce(); from then on the detector passes events to
   onSignalStateChanged.  What handleStartRecording does after its await of
   fromMicrophone() (lines 601-640) reads and writes neither the transcriber
   nor the recognition object. *)

\* handleStartRecording() (lines 590-600) down to its await
HandleStartRecordingIn(L) == FromMicrophoneIn(L)

\* handleStopRecording() (lines 643-646)
HandleStopRecordingIn(L) == StopIn(L, "handleStopRecording")

\* triggerAutoStart() (lines 583-588)
TriggerAutoStartIn(L) ==
  IF page.autoStartEnabled /\ ~L.transcriber.isTranscribing
    THEN HandleStartRecordingIn(L)
    ELSE L

\* the electronAPI.onHotkey handler with action "toggle" (lines 995-1008)
HotkeyIn(L) ==
  IF L.transcriber.isTranscribing THEN HandleStopRecordingIn(L)
  ELSE HandleStartRecordingIn(L)

\* the steps of the page leave at most MaxPromises promises
Bounded(L) == Len(L.promises) <= MaxPromises /\ Heard(L)

\* the DOMContentLoaded handler (lines 714-757) down to its await of
\* requestPermissionOnce()
PageLoads ==
  /\ ~page.loaded
  /\ page' = [page EXCEPT !.loaded = TRUE]
  /\ Heard(RequestPermissionOnceIn(Listener))
  /\ UNCHANGED << detectorVars, shellVars, options, translation >>

\* the 500 ms timer of requestPermissionOnce() fires
PermissionTimer ==
  /\ transcriber.permissionTimer
  /\ Heard(PermissionTimerIn(Listener))
  /\ UNCHANGED << detectorVars, shellVars, options, translation, page >>

\* the detector passes {hasSignal: true} to onSignalStateChanged (lines 734-741)
SignalOn ==
  /\ page.loaded
  /\ Bounded(TriggerAutoStartIn(Listener))
  /\ UNCHANGED << detectorVars, shellVars, options, translation, page >>

\* the hotkey is pressed
Hotkey ==
  /\ Bounded(HotkeyIn(Listener))
  /\ UNCHANGED << detectorVars, shellVars, options, translation, page >>

\* handleStopRecording() called while a recording is on (the key is released,
\* lines 1028-1039)
HandleStopRecording ==
  /\ promises # << >>
  /\ Heard(HandleStopRecordingIn(Listener))
  /\ UNCHANGED << detectorVars, shellVars, options, translation, page >>

\* toggleAutoStart() (lines 651-660)
ToggleAutoStart ==
  /\ page' = [page EXCEPT !.autoStartEnabled = ~@]
  /\ UNCHANGED << detectorVars, shellVars, options, translation, recognition, transcriber,
                  promises >>

NextPage ==
  \/ PageLoads
  \/ PermissionTimer
  \/ SignalOn
  \/ Hotkey
  \/ HandleStopRecording
  \/ ToggleAutoStart
  \/ RecognitionStarts
  \/ \E cs \in Results : RecognitionResult(cs)
  \/ \E error \in Errors : RecognitionError(error)
  \/ RecognitionEnds

SpecPage == InitPage /\ [][NextPage]_vars

----------------------------------------------------------------------------
(* The page script that uses VietnameseTranscriber (src/app.js) and that
   transcriber (src/unnamed/part_003 lines 6-355), which passes the transcript
   to a callback.  requestPermissionOnce() and its timer (part_003 lines
   19-45) are those of SpeechTranscriber, line for line. *)

MaxTranslating == 2

\* fromMicrophone(onTranscribed) (part_003 lines 107-127): recognition.start()
\* throws after the callback has been stored
VietnameseFromMicrophoneIn(L) ==
  IF L.transcriber.isTranscribing THEN L
  ELSE IF StartThrows(L.recognition)
    THEN [L EXCEPT !.transcriber.currentCallback = << "onTranscribed" >>]
    ELSE [L EXCEPT !.transcriber.currentCallback = << "onTranscribed" >>,
                   !.recognition = RecognitionStart(@, "fromMicrophone")]

\* stop() (part_003 lines 339-344)
VietnameseStopIn(L) ==
  IF L.transcriber.isTranscribing
    THEN [L EXCEPT !.recognition = RecognitionStop(@, "stop")]
    ELSE L

\* recognition.onstart (part_003 lines 64-70)
VietnameseOnStartIn(L) ==
  [L EXCEPT !.transcriber.isTranscribing = TRUE,
            !.transcriber.permissionGranted = TRUE,
            !.transcriber.currentTranscript = << >>]

\* recognition.onend (part_003 lines 78-87), the call of the callback apart
VietnameseOnEndIn(L) ==
  [L EXCEPT !.transcriber.isTranscribing = FALSE,
            !.transcriber.currentCallback = null]

\* recognition.onerror (part_003 lines 89-93)
VietnameseOnErrorIn(L) == [L EXCEPT !.transcriber.isTranscribing = FALSE]

\* the callback handleStartRecording passes to fromMicrophone (app.js lines
\* 79-117) down to translateText(...).then: if (transcribedText) { ... }
OnTranscribed(g, transcribedText) ==
  IF transcribedText # << >>
    THEN [g EXCEPT !.translating = Append(@, << transcribedText >>)]
    ELSE g

\* playSpeechWithVoice(text, onComplete, ...) (app.js lines 320-375), onComplete
\* being the function that clears isAutoStartRecording
PlaySpeechWithVoice(g, text) ==
  IF Blank(text) THEN g ELSE [g EXCEPT !.speaking = TRUE]

\* What the translation requests of the page are answered with
PageReplies ==
  {[fetch |-> "rejects", ok |-> FALSE, body |-> null],
   [fetch |-> "fulfils", ok |-> TRUE,
    body |-> << [responseStatus |-> 200,
                 responseData |-> << [translatedText |-> << << "x" >> >>] >>,
                 matches |-> << >>] >>]}

\* the DOMContentLoaded handler (app.js lines 213-259) down to its await of
\* requestPermissionOnce()
AppLoads ==
  /\ ~page.loaded
  /\ page' = [page EXCEPT !.loaded = TRUE]
  /\ Heard(RequestPermissionOnceIn(Listener))
  /\ UNCHANGED << detectorVars, shellVars, options, translation >>

\* the detector passes {hasSignal: true} to onSignalStateChanged (app.js
\* lines 228-238)
AppSignalOn ==
  /\ page.loaded
  /\ Len(page.translating) < MaxTranslating
  /\ IF page.autoStartEnabled /\ ~page.isAutoStartRecording
        /\ ~transcriber.isTranscribing
       THEN /\ page' = [page EXCEPT !.isAutoStartRecording = TRUE]
            /\ Heard(VietnameseFromMicrophoneIn(Listener))
       ELSE UNCHANGED << page, recognition, transcriber, promises >>
  /\ UNCHANGED << detectorVars, shellVars, options, translation >>

\* handleStopRecording() (app.js lines 121-125), called by the user
AppHandleStopRecording ==
  /\ page.isAutoStartRecording
  /\ page' = [page EXCEPT !.isAutoStartRecording = FALSE]
  /\ Heard(VietnameseStopIn(Listener))
  /\ UNCHANGED << detectorVars, shellVars, options, translation >>

\* the session fires start
VietnameseStarts ==
  /\ recognition.phase = "starting"
  /\ recognition.halt # "abort"
  /\ Heard([VietnameseOnStartIn(Listener) EXCEPT !.recognition.phase = "listening"])
  /\ UNCHANGED << detectorVars, shellVars, options, translation, page >>

\* the session fires error; end is still to come
VietnameseError ==
  /\ recognition.phase \in {"starting", "listening"}
  /\ Heard([VietnameseOnErrorIn(Listener) EXCEPT !.recognition.phase = "failed"])
  /\ UNCHANGED << detectorVars, shellVars, options, translation, page >>

\* the session fires end, and onend calls the callback if it holds one
VietnameseEnds ==
  /\ recognition.phase # "idle"
  /\ Heard([VietnameseOnEndIn(Listener) EXCEPT !.recognition = NoSession])
  /\ page' = IF transcriber.currentCallback # null
               THEN OnTranscribed(page, transcriber.currentTranscript)
               ELSE page
  /\ UNCHANGED << detectorVars, shellVars, options, translation >>

\* a translateText promise of the page settles (app.js lines 98-115)
TranslationSettles(reply) ==
  /\ page.translating # << >>
  /\ page' = PlaySpeechWithVoice([page EXCEPT !.translating = Tail(@)],
                                 Translated(Head(page.translating), reply, << >>).value)
  /\ UNCHANGED << detectorVars, shellVars, options, translation, recognition, transcriber,
                  promises >>

\* utterance.onend (app.js lines 359-363) calls onComplete (lines 107-112)
PlaybackEnds ==
  /\ page.speaking
  /\ page' = [page EXCEPT !.speaking = FALSE, !.isAutoStartRecording = FALSE]
  /\ UNCHANGED << detectorVars, shellVars, options, translation, recognition, transcriber,
                  promises >>

\* utterance.onerror (app.js lines 365-368)
PlaybackFails ==
  /\ page.speaking
  /\ page' = [page EXCEPT !.speaking = FALSE]
  /\ UNCHANGED << detectorVars, shellVars, options, translation, recognition, transcriber,
                  promises >>

NextApp ==
  \/ AppLoads
  \/ PermissionTimer
  \/ AppSignalOn
  \/ AppHandleStopRecording
  \/ ToggleAutoStart
  \/ VietnameseStarts
  \/ \E cs \in Results : RecognitionResult(cs)
  \/ VietnameseError
  \/ VietnameseEnds
  \/ \E reply \in PageReplies : TranslationSettles(reply)
  \/ PlaybackEnds
  \/ PlaybackFails

SpecApp == InitPage /\ [][NextApp]_vars

\* The timer fires, every session ends, every translation request settles and
\* every utterance ends or fails
SpecAppFair ==
  /\ SpecApp
  /\ WF_vars(PermissionTimer)
  /\ WF_vars(VietnameseEnds)
  /\ WF_vars(\E reply \in PageReplies : TranslationSettles(reply))
  /\ WF_vars(PlaybackEnds \/ PlaybackFails)

----------------------------------------------------------------------------
(* TranslationService as a listener (src/translator.js lines 4-11, 17-67 and
   391-445) and its SpeechRecognition object, which `recognition` stands for
   here.  A callback is named by the number of the call that passed it. *)

MaxCalls == 3

\* constructor (lines 4-11), with no call made yet
NewTranslationService ==
  [isListening |-> FALSE, recognitionCallback |-> null, _currentTranscript |-> << >>,
   lastTranscribedText |-> null, calls |-> 0, starts |-> 0, called |-> << >>]

\* A page whose detector is left alone, and a TranslationService beside it
InitListen ==
  /\ \E given \in Options : Constructed(given) /\ options = null /\ PageInit
  /\ variant = "self"
  /\ SIGNAL_THRESHOLD = DefaultThresholdSelf
  /\ SIGNAL_OFF_DEBOUNCE_MS = DefaultDebounceSelf
  /\ SIGNAL_ON_CONFIRM_MS = DefaultConfirmSelf
  /\ service = NewTranslationService
  /\ recorder = null
  /\ electron = null
  /\ transcriptionList = null

\* transcribeVietnameseAudio(onResult) (lines 391-411): the guard reads
\* isListening, which only onstart sets; a start() that throws is caught
TranscribeVietnameseAudio ==
  /\ service.calls < MaxCalls
  /\ IF service.isListening
       THEN /\ service' = [service EXCEPT !.calls = @ + 1]
            /\ UNCHANGED recognition
       ELSE /\ service' = [service EXCEPT !.calls = @ + 1,
                                          !.recognitionCallback = << service.calls + 1 >>,
                                          !._currentTranscript = << >>,
                                          !.starts = @ + 1]
            /\ recognition' = IF StartThrows(recognition) THEN recognition
                              ELSE RecognitionStart(recognition, "transcribeVietnameseAudio")
  /\ UNCHANGED << detectorVars, options, translation, transcriber, promises, page,
                  recorder, electron, transcriptionList >>

\* stopRecognition() (lines 428-435)
StopRecognition ==
  /\ service.calls > 0
  /\ recognition' = RecognitionStop(recognition, "stopRecognition")
  /\ UNCHANGED << detectorVars, shellVars, options, translation, transcriber,
                  promises, page >>

\* abortRecognition() (lines 440-445)
AbortRecognition ==
  /\ service.calls > 0
  /\ recognition' = RecognitionAbort(recognition, "abortRecognition")
  /\ UNCHANGED << detectorVars, shellVars, options, translation, transcriber,
                  promises, page >>

\* the session fires start: recognition.onstart (lines 29-34)
ServiceStarts ==
  /\ recognition.phase = "starting"
  /\ recognition.halt # "abort"
  /\ recognition' = [recognition EXCEPT !.phase = "listening"]
  /\ service' = [service EXCEPT !.isListening = TRUE, !._currentTranscript = << >>]
  /\ UNCHANGED << detectorVars, options, translation, transcriber, promises, page,
                  recorder, electron, transcriptionList >>

\* the session fires result: recognition.onresult (lines 36-41)
ServiceResult(cs) ==
  /\ recognition.phase = "listening"
  /\ recognition.halt # "abort"
  /\ Len(service._currentTranscript) < MaxTranscript
  /\ service' = [service EXCEPT !._currentTranscript = @ \o cs]
  /\ UNCHANGED << detectorVars, options, translation, recognition, transcriber,
                  promises, page, recorder, electron, transcriptionList >>

\* the session fires error: recognition.onerror (lines 56-59) reports a status
\* and writes no field; end is still to come
ServiceError(error) ==
  /\ recognition.phase \in {"starting", "listening"}
  /\ error = "aborted" <=> recognition.halt = "abort"
  /\ recognition' = [recognition EXCEPT !.phase = "failed"]
  /\ UNCHANGED << detectorVars, shellVars, options, translation, transcriber,
                  promises, page >>

\* the session fires end: recognition.onend (lines 43-54)
ServiceEnds ==
  /\ recognition.phase # "idle"
  /\ recognition' = NoSession
  /\ service' = [service EXCEPT
                   !.isListening = FALSE,
                   !.lastTranscribedText = << service._currentTranscript >>,
                   !.called = @ \o service.recognitionCallback,
                   !.recognitionCallback = null]
  /\ UNCHANGED << detectorVars, options, translation, transcriber, promises, page,
                  recorder, electron, transcriptionList >>

NextListen ==
  \/ TranscribeVietnameseAudio
  \/ StopRecognition
  \/ AbortRecognition
  \/ ServiceStarts
  \/ \E cs \in Results : ServiceResult(cs)
  \/ \E error \in Errors : ServiceError(error)
  \/ ServiceEnds

SpecListen == InitListen /\ [][NextListen]_vars

----------------------------------------------------------------------------
(* AudioRecorder (src/audio-recorder-core.js lines 2-398).  Its two frame
   loops are the closures draw (lines 296-300) and monitor (lines 347-394); a
   pending requestAnimationFrame callback is [id, loop].  The recorder keeps
   one device selected, so a stream that exists is the stream of that device.
   The awaits of initializeAudio() are taken in one step. *)

MaxRecorderFrames == 4   \* at most MaxRecorderFrames frame callbacks are pending
MaxRecorderTime == 2000  \* Date.now() of the recorder runs from 0 to MaxRecorderTime
MaxAwaiting == 1         \* at most MaxAwaiting getUserMedia() calls are unsettled

\* the time that passes before a tick of monitor
RecorderGaps == {0, 1000, 1999}

\* What getByteFrequencyData() gives the recorder: levels 0, 5 and 6
RecorderSnapshots ==
  {Silence, Spectrum(frequencyBinCount, 14, 14, 14),
   Spectrum(frequencyBinCount, 15, 15, 15)}

\* lines 352-358 over each snapshot of the recorder, evaluated once
RecorderLevel == [d \in RecorderSnapshots |-> AudioLevel(d)]

\* constructor (lines 3-31), with nothing pending and no history
NewAudioRecorder ==
  [audioStream |-> FALSE, selectedDeviceId |-> null, isRecording |-> FALSE,
   audioContext |-> FALSE, analyser |-> FALSE, animationId |-> null,
   audioLevel |-> 0, isCapturing |-> FALSE, lastHasSignal |-> FALSE,
   signalOffTimestamp |-> null, SIGNAL_OFF_DEBOUNCE_MS |-> 2000,
   frames |-> {}, awaiting |-> 0, now |-> 0,
   dispatched |-> << >>, stopped |-> FALSE, ticked |-> FALSE,
   reported |-> null, quietSince |-> null]

\* the id requestAnimationFrame() returns
RequestFrame(R) ==
  FreshId({f.id : f \in R.frames} \cup IdsOf(R.animationId))

\* draw() (lines 296-300)
DrawIn(R) ==
  LET id == RequestFrame(R)
  IN  [R EXCEPT !.animationId = << id >>,
                !.frames = @ \cup {[id |-> id, loop |-> "draw"]},
                !.dispatched = Append(@, "onVisualizerData")]

\* startVisualizer() (lines 290-303)
StartVisualizerIn(R) == IF ~R.analyser THEN R ELSE DrawIn(R)

\* stopVisualizer() (lines 305-313)
StopVisualizerIn(R) ==
  [R EXCEPT !.frames = {f \in @ : f.id \notin IdsOf(R.animationId)},
            !.audioContext = FALSE]

\* lines 364-383: what the tick reports as hasSignal, and the fields it leaves
SignalAbove5(level) == level > 5

StillOnWithin(now, since, debounceMs) == now - since < debounceMs

\* monitor() (lines 347-394) at time now, reading a snapshot of that level
MonitorTickIn(R, now, level) ==
  IF ~R.isCapturing THEN R
  ELSE
    LET raw == SignalAbove5(level)
        onset == raw /\ ~R.lastHasSignal
        offset == ~raw /\ R.lastHasSignal
        since == IF R.signalOffTimestamp = null THEN now
                 ELSE R.signalOffTimestamp[1]
        signal == IF offset
                       THEN StillOnWithin(now, since, R.SIGNAL_OFF_DEBOUNCE_MS)
                       ELSE raw
        id == RequestFrame(R)
    IN  [R EXCEPT
           !.audioLevel = level,
           !.lastHasSignal = IF onset THEN TRUE
                             ELSE IF offset THEN signal ELSE @,
           !.signalOffTimestamp = IF onset THEN null
                                  ELSE IF offset THEN << since >> ELSE @,
           !.frames = @ \cup {[id |-> id, loop |-> "monitor"]},
           !.dispatched = @ \o << "onAudioLevelChanged", "onMicStatusChanged" >>,
           !.ticked = TRUE,
           !.reported = << signal >>,
           !.quietSince = IF raw THEN null
                          ELSE IF @ = null THEN << now >> ELSE @]

\* monitorAudioLevel() (lines 341-397)
MonitorAudioLevelIn(R, now, level) ==
  IF ~R.analyser THEN R ELSE MonitorTickIn(R, now, level)

\* stopCapturingAudio() (lines 119-143); what it passes to onMicStatusChanged
\* is passed by the call, not by a frame loop
StopCapturingAudioIn(R) ==
  StopVisualizerIn([R EXCEPT !.audioStream = IF @ /\ ~R.isRecording THEN FALSE ELSE @,
                             !.isCapturing = FALSE,
                             !.audioLevel = 0,
                             !.stopped = TRUE])

\* startCapturingAudio() (lines 145-210) down to its return at line 166 or
\* its await at line 177
StartCapturingAudioIn(R, now, level) ==
  IF R.selectedDeviceId = null THEN R
  ELSE IF R.audioStream
    THEN MonitorAudioLevelIn(
           StartVisualizerIn([R EXCEPT !.isCapturing = TRUE, !.stopped = FALSE]),
           now, level)
    ELSE [R EXCEPT !.awaiting = @ + 1, !.stopped = FALSE]

\* startCapturingAudio() from the fulfilment of getUserMedia (lines 177-205)
CaptureGrantedIn(R, now, level) ==
  MonitorAudioLevelIn(
    StartVisualizerIn([R EXCEPT !.awaiting = @ - 1, !.audioStream = TRUE,
                                !.audioContext = TRUE, !.analyser = TRUE,
                                !.isCapturing = TRUE, !.stopped = FALSE]),
    now, level)

\* The step of the recorder leaves it as R: the callbacks that one of the two
\* frame loops dispatched are kept if the step was a frame callback
RecorderStep(R, byFrame) ==
  /\ Cardinality(R.frames) <= MaxRecorderFrames
  /\ R.awaiting <= MaxAwaiting
  /\ R.now <= MaxRecorderTime
  /\ recorder' = IF byFrame THEN R ELSE [R EXCEPT !.dispatched = << >>]
  /\ UNCHANGED << detectorVars, options, translation, recognition, transcriber,
                  promises, page, service, electron, transcriptionList >>

\* What a step of the recorder begins with
Fresh(gap) ==
  [recorder EXCEPT !.now = @ + gap, !.dispatched = << >>, !.ticked = FALSE]

\* initializeAudio() (lines 33-113) on a machine with a microphone
InitializeAudio ==
  /\ ~recorder.audioStream
  /\ recorder.selectedDeviceId = null
  /\ RecorderStep([Fresh(0) EXCEPT !.audioStream = TRUE,
                                     !.selectedDeviceId = << "device" >>,
                                     !.isCapturing = TRUE,
                                     !.audioContext = TRUE,
                                     !.analyser = TRUE], FALSE)

\* startCapturingAudio() called
StartCapturingAudio(gap, snap) ==
  /\ recorder.selectedDeviceId # null
  /\ RecorderStep(StartCapturingAudioIn(Fresh(gap), recorder.now + gap,
                                        RecorderLevel[snap]), FALSE)

\* getUserMedia() of a startCapturingAudio() fulfils
CaptureGranted(gap, snap) ==
  /\ recorder.awaiting > 0
  /\ RecorderStep(CaptureGrantedIn(Fresh(gap), recorder.now + gap,
                                   RecorderLevel[snap]), FALSE)

\* getUserMedia() of a startCapturingAudio() rejects (lines 206-209)
CaptureDenied ==
  /\ recorder.awaiting > 0
  /\ RecorderStep([Fresh(0) EXCEPT !.awaiting = @ - 1], FALSE)

\* stopCapturingAudio() called
StopCapturingAudio ==
  /\ recorder.selectedDeviceId # null
  /\ RecorderStep(StopCapturingAudioIn(Fresh(0)), FALSE)

\* toggleMic() (lines 333-339)
ToggleMic(gap, snap) ==
  /\ recorder.selectedDeviceId # null
  /\ RecorderStep(IF recorder.isCapturing THEN StopCapturingAudioIn(Fresh(0))
                  ELSE StartCapturingAudioIn(Fresh(gap), recorder.now + gap,
                                             RecorderLevel[snap]), FALSE)

\* startRecording() (lines 212-277) with a stream, and stopRecording() (lines
\* 279-288), as far as isRecording goes
ToggleRecording ==
  /\ recorder.audioStream \/ recorder.isRecording
  /\ RecorderStep([Fresh(0) EXCEPT !.isRecording = ~@], FALSE)

\* a frame callback of draw fires
DrawFrame(f) ==
  /\ f \in recorder.frames
  /\ f.loop = "draw"
  /\ RecorderStep(DrawIn([Fresh(0) EXCEPT !.frames = @ \ {f}]), TRUE)

\* a frame callback of monitor fires
MonitorFrame(f, gap, snap) ==
  /\ f \in recorder.frames
  /\ f.loop = "monitor"
  /\ RecorderStep(MonitorTickIn([Fresh(gap) EXCEPT !.frames = @ \ {f}],
                                recorder.now + gap, RecorderLevel[snap]), TRUE)

\* A page whose detector is left alone, and an AudioRecorder beside it
InitRecorder ==
  /\ \E given \in Options : Constructed(given) /\ options = null /\ PageInit
  /\ variant = "self"
  /\ SIGNAL_THRESHOLD = DefaultThresholdSelf
  /\ SIGNAL_OFF_DEBOUNCE_MS = DefaultDebounceSelf
  /\ SIGNAL_ON_CONFIRM_MS = DefaultConfirmSelf
  /\ service = null
  /\ recorder = NewAudioRecorder
  /\ electron = null
  /\ transcriptionList = null

NextRecorder ==
  \/ InitializeAudio
  \/ \E gap \in RecorderGaps, snap \in RecorderSnapshots : StartCapturingAudio(gap, snap)
  \/ \E gap \in RecorderGaps, snap \in RecorderSnapshots : CaptureGranted(gap, snap)
  \/ CaptureDenied
  \/ StopCapturingAudio
  \/ \E gap \in RecorderGaps, snap \in RecorderSnapshots : ToggleMic(gap, snap)
  \/ ToggleRecording
  \/ \E f \in recorder.frames : DrawFrame(f)
  \/ \E f \in recorder.frames, gap \in RecorderGaps, snap \in RecorderSnapshots :
       MonitorFrame(f, gap, snap)

SpecRecorder == InitRecorder /\ [][NextRecorder]_vars

----------------------------------------------------------------------------
(* The Electron main process (src/electron-main.js): hotkeyDebounce (line 5)
   and debounceHotkey (lines 41-47).  A property that the object does not
   hold reads as undefined, << >> here.  Date.now() counts the milliseconds
   since 1970 and is positive. *)

MaxHotkeyTime == 1000   \* Date.now() of the main process runs up to MaxHotkeyTime

\* the keys debounceHotkey is called with: that of line 59 and another
HotKeys == {"g-toggle", "h-help"}

\* the delays it is called with: that of line 64, the default of line 41, and
\* a shorter one
Delays == {100, 300}

\* the time that passes before a press
PressGaps == {0, 100, 299, 300}

\* let hotkeyDebounce = {} (line 5), with no press made yet
NewMainProcess ==
  [now |-> 1, hotkeyDebounce |-> [k \in HotKeys |-> null],
   press |-> null, invoked |-> FALSE,
   lastInvoked |-> [k \in HotKeys |-> null], pressed |-> {}]

\* !hotkeyDebounce[key]: undefined and 0 are falsy
Falsy(last) == last = null \/ last[1] = 0

AcceptedAnyLater(last, now, delayMs) == Falsy(last) \/ now - last[1] >= 0

\* the condition of line 43
Accepted(last, now, delayMs) == Falsy(last) \/ now - last[1] >= delayMs

\* debounceHotkey(key, callback, delayMs) (lines 41-47) at time now
DebounceHotkeyIn(E, key, delayMs, now) ==
  IF Accepted(E.hotkeyDebounce[key], now, delayMs)
    THEN [E EXCEPT !.hotkeyDebounce[key] = << now >>,
                   !.invoked = TRUE,
                   !.lastInvoked[key] = << now >>]
    ELSE [E EXCEPT !.invoked = FALSE]

\* the shortcut of key is pressed (lines 57-66)
PressHotkey(key, delayMs, gap) ==
  /\ electron.now + gap <= MaxHotkeyTime
  /\ electron' =
       [DebounceHotkeyIn(electron, key, delayMs, electron.now + gap) EXCEPT
          !.now = electron.now + gap,
          !.press = << [key |-> key, delayMs |-> delayMs] >>,
          !.pressed = @ \cup {key}]
  /\ UNCHANGED << detectorVars, options, translation, recognition, transcriber,
                  promises, page, service, recorder, transcriptionList >>

\* time passes without a press
NoPress(gap) ==
  /\ gap > 0
  /\ electron.now + gap <= MaxHotkeyTime
  /\ electron' = [electron EXCEPT !.now = @ + gap, !.press = null, !.invoked = FALSE]
  /\ UNCHANGED << detectorVars, options, translation, recognition, transcriber,
                  promises, page, service, recorder, transcriptionList >>

\* A page whose detector is left alone, and the main process beside it
InitHotkeys ==
  /\ \E given \in Options : Constructed(given) /\ options = null /\ PageInit
  /\ variant = "self"
  /\ SIGNAL_THRESHOLD = DefaultThresholdSelf
  /\ SIGNAL_OFF_DEBOUNCE_MS = DefaultDebounceSelf
  /\ SIGNAL_ON_CONFIRM_MS = DefaultConfirmSelf
  /\ service = null
  /\ recorder = null
  /\ electron = NewMainProcess
  /\ transcriptionList = null

NextHotkeys ==
  \/ \E key \in HotKeys, delayMs \in Delays, gap \in PressGaps :
       PressHotkey(key, delayMs, gap)
  \/ \E gap \in PressGaps : NoPress(gap)

SpecHotkeys == InitHotkeys /\ [][NextHotkeys]_vars

----------------------------------------------------------------------------
(* The history list of the page: addToTranscriptionList (src/app.js lines
   47-72; the same code is src/unnamed/part_001 lines 490-515 and part_002
   lines 71-96).  A text is a sequence of words and holds no markup.  The
   element #transcriptionList has a message, "No transcriptions yet" until
   the first call clears it, and its children, the first one first; a child
   is the node of an item, named by the number of the call that created it.
   The time of day at the head of an item is left out of its text. *)

MaxAdds == 22   \* addToTranscriptionList is called at most MaxAdds times

\* while (listContainer.children.length > 20) (line 69)
HistoryLimit == 20

\* "No transcriptions yet" (line 51)
Placeholder == << "No", "transcriptions", "yet" >>

\* What is transcribed: a greeting, the words of the message, a sentence
\* that quotes them
InputTexts ==
  {<< "xin", "chao" >>, Placeholder,
   << "he", "said" >> \o Placeholder \o << "twice" >>}

\* What it is translated to
OutputTexts == {<< "ni", "hao" >>, Placeholder}

\* haystack.includes(needle)
Includes(haystack, needle) ==
  \E i \in 1..(Len(haystack) - Len(needle) + 1) :
    SubSeq(haystack, i, i + Len(needle) - 1) = needle

\* the text of an item (lines 61-63)
RECURSIVE ChildrenText(_)
ChildrenText(children) ==
  IF children = << >> THEN << >>
  ELSE << "Input:" >> \o Head(children).inputText \o << "Output:" >>
         \o Head(children).outputText \o ChildrenText(Tail(children))

\* listContainer.textContent
TextContent(L) ==
  (IF L.message THEN Placeholder ELSE << >>) \o ChildrenText(L.children)

\* while (children.length > n) removeChild(lastChild) (lines 69-71)
RECURSIVE RemoveLastWhileOver(_, _)
RemoveLastWhileOver(children, n) ==
  IF Len(children) > n
    THEN RemoveLastWhileOver(SubSeq(children, 1, Len(children) - 1), n)
    ELSE children

\* the page before the first call
NewTranscriptionList == [message |-> TRUE, children |-> << >>, calls |-> 0]

\* addToTranscriptionList(inputText, outputText) (lines 47-72)
AddToTranscriptionListIn(L, inputText, outputText) ==
  LET cleared == IF Includes(TextContent(L), Placeholder)
                   THEN [L EXCEPT !.message = FALSE, !.children = << >>]
                   ELSE L
      item == [node |-> L.calls + 1, inputText |-> inputText,
               outputText |-> outputText]
  IN  [cleared EXCEPT
         !.children = RemoveLastWhileOver(<< item >> \o @, HistoryLimit),
         !.calls = @ + 1]

AddToTranscriptionList(inputText, outputText) ==
  /\ transcriptionList.calls < MaxAdds
  /\ transcriptionList' =
       AddToTranscriptionListIn(transcriptionList, inputText, outputText)
  /\ UNCHANGED << detectorVars, options, translation, recognition, transcriber,
                  promises, page, service, recorder, electron >>

\* A page whose detector is left alone, with its history list
InitHistory ==
  /\ \E given \in Options : Constructed(given) /\ options = null /\ PageInit
  /\ variant = "self"
  /\ SIGNAL_THRESHOLD = DefaultThresholdSelf
  /\ SIGNAL_OFF_DEBOUNCE_MS = DefaultDebounceSelf
  /\ SIGNAL_ON_CONFIRM_MS = DefaultConfirmSelf
  /\ service = null
  /\ recorder = null
  /\ electron = null
  /\ transcriptionList = NewTranscriptionList

NextHistory ==
  \E inputText \in InputTexts, outputText \in OutputTexts :
    AddToTranscriptionList(inputText, outputText)

SpecHistory == InitHistory /\ [][NextHistory]_vars

----------------------------------------------------------------------------
(* Properties *)

Ticked == tickOf # "none"
EmittedOn == emitted # << >> /\ emitted[1].hasSignal
EmittedOff == emitted # << >> /\ ~emitted[1].hasSignal

\* C1: a hasSignal:false event is emitted at a tick with time t only if the
\* raw verdict was false on every tick of a stretch [s, t] that is at least
\* SIGNAL_OFF_DEBOUNCE_MS long: the run of raw-false ticks that the emitting
\* tick ends began at least the debounce window earlier.
C1_OffsetAfterContinuousSilence ==
  (Ticked /\ EmittedOff) =>
     /\ ~hasSignal
     /\ runStart # null
     /\ emitted[1].timestamp - runStart[1] >= SIGNAL_OFF_DEBOUNCE_MS

\* C2: a raw-true tick that starts with lastHasSignal true and an offset timer
\* pending leaves signalOffTimestamp none and lastHasSignal true, and emits
\* nothing.
C2_RawTrueCancelsPendingOffset ==
  (Ticked /\ hasSignal /\ pre[1].lastHasSignal /\ pre[1].signalOffTimestamp # null) =>
     /\ signalOffTimestamp = null
     /\ lastHasSignal
     /\ emitted = << >>

C4_AtMostOneTimer ==
  /\ ~(signalOnTimestamp # null /\ signalOffTimestamp # null)
  /\ (Ticked /\ emitted # << >>) =>
        (signalOnTimestamp = null /\ signalOffTimestamp = null)

\* C5: with the 128 bins of fftSize 256, a tick on a snapshot that holds the
\* same magnitude m in 1..255 in every bin has a false raw verdict, whatever
\* the threshold.
C5_UniformSnapshotRejected ==
  (/\ Ticked
   /\ Len(dataArray) = fftSize \div 2
   /\ dataArray[1] \in 1..MaxMagnitude
   /\ \A i \in 1..Len(dataArray) : dataArray[i] = dataArray[1])
  => ~hasSignal

\* The sum of the bins of d with 0-based index in [from, to)
RECURSIVE BinSum(_, _, _)
BinSum(d, from, to) ==
  IF to <= from THEN 0
  ELSE IF to = from + 1 THEN d[to]
  ELSE BinSum(d, from, from + (to - from) \div 2)
       + BinSum(d, from + (to - from) \div 2, to)

\* midFreqRatio > 0.3 as the claim defines the ratio: the bins with index in
\* [floor(0.1 N), floor(0.4 N)) over all N bins, 0 when the total is 0
MidBandShareAbove03(d) ==
  LET N == Len(d)
      mid == BinSum(d, N \div 10, (4 * N) \div 10)
      total == BinSum(d, 0, N)
  IN  total # 0 /\ 10 * mid > 3 * total

\* C6: the raw verdict of a tick is true exactly when audioLevel exceeds
\* SIGNAL_THRESHOLD and the mid band holds more than 0.3 of the sum of all
\* bins; a level above the threshold alone gives no true verdict.
C6_RawVerdict ==
  Ticked =>
    (hasSignal <=> (audioLevel > SIGNAL_THRESHOLD /\ MidBandShareAbove03(dataArray)))

\* C6 happens: a tick louder than the threshold is rejected for its spectrum
C6_Witness ==
  /\ Ticked
  /\ audioLevel > SIGNAL_THRESHOLD
  /\ ~MidBandShareAbove03(dataArray)
  /\ ~hasSignal

\* C7: with SIGNAL_ON_CONFIRM_MS = 0, a raw-true tick that starts in the
\* stable-off state sets lastHasSignal and emits hasSignal:true on that same
\* tick, and signalOnTimestamp is none in every state between steps.
C7_ImmediateOnset ==
  SIGNAL_ON_CONFIRM_MS = 0 =>
    /\ signalOnTimestamp = null
    /\ (Ticked /\ hasSignal /\ pre[1] = InitialSignalState) =>
          /\ lastHasSignal
          /\ emitted = << Event(TRUE, audioLevel, clock) >>

\* C7 happens: the first raw-true tick of a detector with no confirm window
C7_Witness ==
  /\ SIGNAL_ON_CONFIRM_MS = 0
  /\ Ticked /\ hasSignal
  /\ pre[1] = InitialSignalState
  /\ EmittedOn

\* C8: in an unbroken run of raw-false ticks that begins in the stable-on
\* state with no offset timer pending, at time t0, the hasSignal:false event
\* is emitted exactly once, on the first tick at or after
\* t0 + SIGNAL_OFF_DEBOUNCE_MS, and lastHasSignal is true until then.
C8_OffsetExactlyOnce ==
  offRun # null =>
    /\ offRun[1].emits = (IF offRun[1].due > 0 THEN 1 ELSE 0)
    /\ offRun[1].due = 0 => lastHasSignal

\* C8 happens: the run went on past the tick that emitted the event
C8_Witness ==
  /\ offRun # null
  /\ offRun[1].due = 2
  /\ offRun[1].emits = 1
  /\ ~lastHasSignal

\* C9: reset() leaves the signal state of construction: audioLevel 0,
\* lastHasSignal false, signalOnTimestamp none and signalOffTimestamp none.
C9_ResetRestoresInitialState ==
  [][Reset => /\ audioLevel' = 0
              /\ lastHasSignal' = FALSE
              /\ signalOnTimestamp' = null
              /\ signalOffTimestamp' = null]_vars

\* C10: the first tick after monitoring is restarted (startMonitoring() after
\* a stopMonitoring()) starts from the initial signal state.
C10_RestartFromInitialState ==
  (tickOf = "startMonitoring" /\ stoppedBefore) => pre[1] = InitialSignalState

\* C11: every tick that passes the guard passes exactly one level, the level
\* it computed, to onAudioLevelChanged, whether or not it commits a state
\* change; it passes at most one event to onSignalStateChanged, and only when
\* it changes the value of lastHasSignal.
C11_OneLevelPerTick ==
  Ticked =>
    /\ levelNotified = << audioLevel >>
    /\ Len(emitted) <= 1
    /\ emitted # << >> => lastHasSignal # pre[1].lastHasSignal

\* C11 happens: a tick that started the onset timer and committed nothing
C11_Witness ==
  /\ Ticked
  /\ hasSignal
  /\ signalOnTimestamp # null
  /\ emitted = << >>
  /\ Len(levelNotified) = 1

\* C12: once stopMonitoring() has been called, a step other than the next
\* startMonitoring() passes nothing to onAudioLevelChanged or
\* onSignalStateChanged, and a frame callback that still fires requests no
\* further frame; the tick during which stopMonitoring() was called is the
\* one exception, as it began while isMonitoring was true.
C12_SilentAfterStop ==
  [][(stoppedBefore /\ ~isMonitoring /\ tickOf' # "startMonitoring") =>
        /\ emitted' = << >>
        /\ levelNotified' = << >>
        /\ frames' \subseteq frames]_vars

\* C12 happens: the frame requested by a tick during which an observer called
\* stopMonitoring() has fired and was stopped by the guard
C12_Witness ==
  /\ stoppedBefore
  /\ ~isMonitoring
  /\ animationId # null
  /\ frames = {}
  /\ tickOf = "none"

\* C13: no tick begins while another tick of the detector is executing,
\* whatever calls of startMonitoring() and stopMonitoring() are made,
\* those made by the observers during a tick included.
C13_NoTickInsideATick == nested = 0

\* C14: a stop() that follows a stop() with no step in between, and a
\* stopMonitoring() that follows a stopMonitoring(), changes no field and
\* calls none of cancelAnimationFrame, track.stop and audioContext.close.
C14_SecondStopDoesNothing ==
  [][(Len(succession') = 2 /\ succession'[1] = succession'[2]) =>
        /\ cleanup' = << >>
        /\ UNCHANGED << analyser, audioStream, audioContext, audioLevel,
                        lastHasSignal, signalOffTimestamp, signalOnTimestamp,
                        SIGNAL_THRESHOLD, SIGNAL_OFF_DEBOUNCE_MS,
                        SIGNAL_ON_CONFIRM_MS, isMonitoring, animationId,
                        frames >>]_vars

\* C14 happens: stop() was called twice in succession on a detector that had
\* been initialised and had run ticks
C14_Witness ==
  /\ succession = << "stop", "stop" >>
  /\ analyser
  /\ dataArray # << >>

\* C15: in both classes startMonitoring() on a detector without an analyser
\* leaves isMonitoring false, runs and requests no tick and passes nothing
\* to the observers.
C15_StartWithoutAnalyserIsNoOp ==
  [][(/\ ~analyser
      /\ ~isMonitoring
      /\ \E gap \in 0..MaxGap : StartMonitoring(gap, Silence)) =>
        /\ ~isMonitoring'
        /\ tickOf' = "none"
        /\ frames' = frames
        /\ animationId' = animationId
        /\ emitted' = << >>
        /\ levelNotified' = << >>]_vars

\* C16: reset() leaves isMonitoring, the pending frame request (animationId),
\* SIGNAL_THRESHOLD, SIGNAL_OFF_DEBOUNCE_MS and SIGNAL_ON_CONFIRM_MS as they
\* are and passes nothing to the observers.
C16_ResetLeavesTheLoop ==
  [][Reset =>
        /\ UNCHANGED << isMonitoring, animationId, frames, SIGNAL_THRESHOLD,
                        SIGNAL_OFF_DEBOUNCE_MS, SIGNAL_ON_CONFIRM_MS >>
        /\ emitted' = << >>
        /\ levelNotified' = << >>]_vars

\* C16 happens: reset() was called between two ticks of a running loop that
\* had measured a level above 0
C16_Witness ==
  /\ isMonitoring
  /\ animationId # null
  /\ animationId[1] \in frames
  /\ tickOf = "none"
  /\ dataArray = Speech
  /\ audioLevel = 0

\* Every bin of d holds m
Uniform(d, m) == \A i \in 1..Len(d) : d[i] = m

\* C17: a tick on a snapshot whose bins are all 0 computes audioLevel 0 and
\* mid-frequency ratio 0, has a false raw verdict whatever the threshold,
\* and emits no event from the stable-off state.
C17_SilentSnapshot ==
  (Ticked /\ Uniform(dataArray, 0)) =>
     /\ audioLevel = 0
     /\ midFreqRatio[1] = 0 /\ midFreqRatio[2] > 0
     /\ ~hasSignal
     /\ pre[1] = InitialSignalState => (emitted = << >> /\ ~lastHasSignal)

\* C17 happens: the level 0 exceeds the threshold and the ratio rejects
C17_Witness ==
  /\ Ticked
  /\ Uniform(dataArray, 0)
  /\ audioLevel > SIGNAL_THRESHOLD
  /\ pre[1] = InitialSignalState
  /\ ~hasSignal

\* C18: on a snapshot of N bins that all hold the same m in 1..255, the
\* mid-frequency ratio is (floor(0.4 N) - floor(0.1 N)) / N, whatever m is.
C18_UniformRatio ==
  (Ticked /\ dataArray[1] \in 1..MaxMagnitude /\ Uniform(dataArray, dataArray[1])) =>
     LET N == Len(dataArray)
     IN  midFreqRatio[1] * N = midFreqRatio[2] * ((4 * N) \div 10 - N \div 10)

\* C18 happens: a uniform snapshot of 16 bins, whose mid band is 5 bins
C18_Witness ==
  /\ Ticked
  /\ Len(dataArray) = 16
  /\ Uniform(dataArray, MaxMagnitude)
  /\ midFreqRatio[1] * 16 = midFreqRatio[2] * 5

\* C19: the audioLevel a tick computes, which is the level it passes to
\* onAudioLevelChanged and the one getSignalState() returns, is an integer
\* in 0..100 nearest to 100 * rms / 255, rms being the root of the mean of
\* the squares of the bins: |2 * 255 * L - 200 * rms| <= 255, squared.
C19_LevelIsRoundedRms ==
  Ticked =>
    LET N == Len(dataArray)
        squares == BinSum([i \in 1..N |-> dataArray[i] * dataArray[i]], 0, N)
        g == GCD(N, 1600)
        L == audioLevel
    IN  /\ L \in 0..100
        /\ levelNotified = << L >>
        /\ L = 0 \/ (2 * L - 1) * (2 * L - 1) * 2601 * (N \div g)
                       <= (1600 \div g) * squares
        /\ (1600 \div g) * squares
              <= (2 * L + 1) * (2 * L + 1) * 2601 * (N \div g)

\* C19 happens: a level strictly between 0 and 100 from a snapshot whose
\* bins differ
C19_Witness ==
  /\ Ticked
  /\ audioLevel \in 1..99
  /\ ~Uniform(dataArray, dataArray[1])

\* C20: setSignalThreshold() changes SIGNAL_THRESHOLD only and setDebounceMs()
\* changes SIGNAL_OFF_DEBOUNCE_MS only, and neither passes anything to the
\* observers; a tick decides with the values the fields hold when it runs:
\* its raw verdict compares with SIGNAL_THRESHOLD, and it confirms a pending
\* offset when the time since signalOffTimestamp reaches
\* SIGNAL_OFF_DEBOUNCE_MS.
C20_SettersTouchOnlyTheirField ==
  [][/\ (\E v \in ThresholdArguments : SetSignalThreshold(v)) =>
          /\ UNCHANGED << SIGNAL_OFF_DEBOUNCE_MS, SIGNAL_ON_CONFIRM_MS,
                          lastHasSignal, audioLevel, signalOnTimestamp,
                          signalOffTimestamp, isMonitoring, animationId, frames >>
          /\ emitted' = << >>
          /\ levelNotified' = << >>
     /\ (\E v \in DebounceArguments : SetDebounceMs(v)) =>
          /\ UNCHANGED << SIGNAL_THRESHOLD, SIGNAL_ON_CONFIRM_MS,
                          lastHasSignal, audioLevel, signalOnTimestamp,
                          signalOffTimestamp, isMonitoring, animationId, frames >>
          /\ emitted' = << >>
          /\ levelNotified' = << >>
     /\ tickOf' # "none" =>
          /\ hasSignal' = (/\ audioLevel' > SIGNAL_THRESHOLD
                           /\ 10 * midFreqRatio'[1] > 3 * midFreqRatio'[2])
          /\ (lastHasSignal /\ ~hasSignal') =>
                LET since == IF signalOffTimestamp = null THEN clock'
                             ELSE signalOffTimestamp[1]
                IN  (emitted' # << >>) <=> (clock' - since >= SIGNAL_OFF_DEBOUNCE_MS)
    ]_vars

\* C20 happens: an offset that was pending is confirmed after the window
\* that setDebounceMs() has set
C20_Witness ==
  /\ Ticked
  /\ EmittedOff
  /\ SIGNAL_OFF_DEBOUNCE_MS \in DebounceArguments
  /\ pre[1].signalOffTimestamp # null
  /\ clock - pre[1].signalOffTimestamp[1] >= SIGNAL_OFF_DEBOUNCE_MS

\* The translateText call that has settled, with what it was given
Settled == translation # null /\ translation[1].phase = "settled"

\* The input is blank, fetch rejects, the response is not ok or not JSON, the
\* responseStatus is not 200, or neither responseData nor a match carries a
\* translation that is not blank
TranslationFails(t) ==
  \/ Blank(t.text)
  \/ t.reply[1].fetch = "rejects"
  \/ ~t.reply[1].ok
  \/ t.reply[1].body = null
  \/ t.reply[1].body[1].responseStatus # 200
  \/ t.reply[1].body[1].responseData = null
  \/ /\ Blank(t.reply[1].body[1].responseData[1].translatedText)
     /\ \A i \in DOMAIN t.reply[1].body[1].matches :
          Blank(t.reply[1].body[1].matches[i].translation)

\* C21: translateText never rejects; when the translation fails it resolves
\* with the text it was given, and otherwise with a translation of the reply
\* that is not blank
C21_TranslateTextResolves ==
  Settled =>
    /\ translation[1].settled = "resolved"
    /\ IF TranslationFails(translation[1])
         THEN translation[1].value = translation[1].text
         ELSE /\ ~Blank(translation[1].value)
              /\ \/ translation[1].value =
                      translation[1].reply[1].body[1].responseData[1].translatedText
                 \/ \E i \in DOMAIN translation[1].reply[1].body[1].matches :
                      translation[1].value =
                        translation[1].reply[1].body[1].matches[i].translation

\* a call failed after its fetch and resolved with its text
C21_Witness ==
  /\ Settled
  /\ ~Blank(translation[1].text)
  /\ TranslationFails(translation[1])
  /\ translation[1].settled = "resolved"
  /\ translation[1].value = translation[1].text

\* C22: an option the constructor is given, 0 included, is the value the
\* detector uses; the default is used only for an option that is absent
C22_OptionsAreUsed ==
  options # null =>
    /\ options[1].signalThreshold # null =>
         SIGNAL_THRESHOLD = options[1].signalThreshold[1]
    /\ options[1].debounceMs # null =>
         SIGNAL_OFF_DEBOUNCE_MS = options[1].debounceMs[1]
    /\ options[1].confirmMs # null =>
         SIGNAL_ON_CONFIRM_MS = options[1].confirmMs[1]

\* The hasSignal of the event passed to the observer before the i-th event of
\* the step: FALSE stands before the first event of all
EventBefore(i) ==
  IF i > 1 THEN emitted'[i - 1].hasSignal
  ELSE IF lastEvent = null THEN FALSE ELSE lastEvent[1]

\* C23: the events passed to onSignalStateChanged alternate: the first has
\* hasSignal true and every event differs in hasSignal from the one before it
C23_EventsAlternate ==
  [][\A i \in 1..Len(emitted') : emitted'[i].hasSignal # EventBefore(i)]_vars

\* getSignalState() (lines 365-371 and 135-141)
GetSignalState ==
  [hasSignal |-> lastHasSignal, audioLevel |-> audioLevel,
   signalOffTimestamp |-> signalOffTimestamp]

\* C24: where reset() is not called, lastHasSignal (what getSignalState()
\* returns as hasSignal) is the hasSignal of the last event passed to the
\* observer, or false when none has been passed
C24_StateIsLastEvent ==
  GetSignalState.hasSignal = (IF lastEvent = null THEN FALSE ELSE lastEvent[1])

\* events have been passed and the last one was an offset
C24_Witness ==
  /\ lastEvent = << FALSE >>
  /\ ~GetSignalState.hasSignal
  /\ stoppedBefore
  /\ isMonitoring
  /\ SIGNAL_THRESHOLD \in ThresholdArguments

\* C25: an event with hasSignal true is passed on a tick whose raw verdict is
\* true and carries a level above the threshold of that tick; an event with
\* hasSignal false is passed on a tick whose raw verdict is false
C25_EventsFollowTheVerdict ==
  \A i \in 1..Len(emitted) :
    IF emitted[i].hasSignal
      THEN hasSignal /\ emitted[i].audioLevel > SIGNAL_THRESHOLD
      ELSE ~hasSignal

\* an onset event passed by the tick of a frame callback
C25_Witness ==
  /\ tickOf = "frame"
  /\ emitted # << >>
  /\ emitted[1].hasSignal
  /\ emitted[1].audioLevel > SIGNAL_THRESHOLD
  /\ pre # null
  /\ ~pre[1].lastHasSignal
  /\ clock > 0

\* C26: between ticks a detector has at most one frame callback pending
C26_OneFramePending == Cardinality(frames) <= 1

\* The p-th promise fromMicrophone() returned is neither resolved nor rejected
Unsettled(p) == p \in DOMAIN promises /\ promises[p] = "pending"

\* C27: the page calls fromMicrophone() only when every promise an earlier
\* call returned is settled
C27_OneRecordingAtATime ==
  [][Len(promises') > Len(promises) => \A p \in DOMAIN promises : ~Unsettled(p)]_vars

\* C28: every promise fromMicrophone() has returned is settled in the end
C28_EveryPromiseSettles ==
  \A p \in 1..MaxPromises : Unsettled(p) ~> ~Unsettled(p)

\* C29: the stop() of the timer of requestPermissionOnce() never halts a
\* session that fromMicrophone() started
C29_TimerStopsOnlyTheProbe ==
  ~(recognition.owner = "fromMicrophone" /\ recognition.haltedBy = "timer")

\* C30: after an auto-started recording isAutoStartRecording returns to false
C30_AutoStartFlagReturns ==
  page.isAutoStartRecording ~> ~page.isAutoStartRecording

\* C31: a call of transcribeVietnameseAudio() made while the recognition object
\* has a session (start() has been called for it and its end event has not
\* fired) is ignored: it neither calls recognition.start() nor replaces the
\* registered callback, also when the start event has not fired yet.
C31_OneSessionAtATime ==
  [][(service'.calls > service.calls /\ recognition.phase # "idle") =>
        /\ service'.starts = service.starts
        /\ service'.recognitionCallback = service.recognitionCallback]_vars

\* C32: the hasSignal that monitorAudioLevel reports is true on every tick
\* with audioLevel > 5, and falls from true to false only on a tick at which
\* audioLevel <= 5 has held on every tick of the last SIGNAL_OFF_DEBOUNCE_MS.
C32_OffAfterUnbrokenSilence ==
  [][/\ (recorder'.ticked /\ recorder'.audioLevel > 5) =>
          recorder'.reported = << TRUE >>
     /\ (recorder'.ticked /\ recorder.reported = << TRUE >>
           /\ recorder'.reported = << FALSE >>) =>
          /\ recorder'.quietSince # null
          /\ recorder'.now - recorder'.quietSince[1] >=
               recorder'.SIGNAL_OFF_DEBOUNCE_MS]_vars

\* C33: from the return of stopCapturingAudio() until capturing is started
\* again no frame loop passes anything to onVisualizerData,
\* onAudioLevelChanged or onMicStatusChanged.
C33_NoLoopAfterStop ==
  [][(recorder.stopped /\ recorder'.stopped) => recorder'.dispatched = << >>]_vars

\* The key and the delay of the press that the step makes
Pressed == electron'.press[1]

\* C34: debounceHotkey throttles per key: a callback is called at least
\* delayMs after the last call of the callback of the same key, the first
\* press of a key is accepted, a press less than delayMs after the last
\* accepted press of its key is dropped and leaves hotkeyDebounce as it was,
\* and no press touches the entry of another key.
C34_ThrottlePerKey ==
  [][electron'.press # null =>
       LET key == Pressed.key
           last == electron.lastInvoked[key]
       IN  /\ (electron'.invoked /\ last # null) =>
                 electron'.now - last[1] >= Pressed.delayMs
           /\ key \notin electron.pressed => electron'.invoked
           /\ (last # null /\ electron'.now - last[1] < Pressed.delayMs) =>
                 /\ ~electron'.invoked
                 /\ electron'.hotkeyDebounce = electron.hotkeyDebounce
           /\ \A other \in HotKeys \ {key} :
                 electron'.hotkeyDebounce[other] = electron.hotkeyDebounce[other]]_vars

\* C34 happens: a press of one key has been dropped while the other key has
\* been accepted before
C34_Witness ==
  /\ electron.press # null
  /\ ~electron.invoked
  /\ \A key \in HotKeys : electron.lastInvoked[key] # null

\* The entries that were in the list, the oldest ones beyond n - 1 left out
KeptOf(children, n) ==
  SubSeq(children, 1, IF Len(children) < n THEN Len(children) ELSE n - 1)

\* C35: after addToTranscriptionList(input, output) the list is the new entry
\* followed by the entries it held before, in their order, cut to the 20 most
\* recent; nothing else removes an entry, whatever the texts are.
C35_NewestFirstUpTo20 ==
  [][transcriptionList'.calls > transcriptionList.calls =>
       /\ transcriptionList'.children # << >>
       /\ Head(transcriptionList'.children).node = transcriptionList'.calls
       /\ Tail(transcriptionList'.children) =
            KeptOf(transcriptionList.children, HistoryLimit)]_vars

====
